---- MODULE Spec2Model ----
(***************************************************************************)
(* Plugin management operators of plugins/__init__.py: install_plugin,     *)
(* manage_plugins and build_operator_skeleton, with the helpers they call. *)
(* Each operator family has its own specification over its own variables;  *)
(* the variables of the other families stay at their initial values.       *)
(***************************************************************************)
EXTENDS Integers, Sequences, FiniteSets, TLC

\* ------------------------------------------------------------------------
\* Bounds of the model
\* ------------------------------------------------------------------------

\* number of plugin names known to the registry in the manage_plugins model
NumPlugins == 3

\* Python's None, and the marker of a key that is absent from a dict
None == "None"

VARIABLES
    \* ---- manage_plugins -------------------------------------------------
    installed,      \* names listed by fop.list_plugins(enabled="all")
    enabled,        \* names listed by fop.list_enabled_plugins()
    mparams,        \* ctx.params of manage_plugins: tab and enablement<i>
    mform,          \* result of the last manage_plugins.resolve_input
    mcalls,         \* enable_plugin/disable_plugin calls of the last execute
    mstatus,        \* outcome of the last manage_plugins.execute
    \* ---- the loop of _plugin_enablement, iteration by iteration ----------
    loop_i,         \* i of the while loop
    enabled_plugins, \* the set read from the registry before the loop
    mruns,          \* number of execute calls made with the bag
    \* ---- requirement checks ---------------------------------------------
    req_str,        \* the requirement string under check, as its tokens
    pkg_versions,   \* metadata.version: installed package -> version
    fo_version,     \* foc.VERSION
    rresult,        \* (req_str, version, satisfied) of the last check
    rform,          \* the requirements form of the last resolve_input
    \* ---- install_plugin ------------------------------------------------
    iparams,        \* ctx.params of install_plugin
    iform,          \* result of the last install_plugin.resolve_input
    icalls,         \* fop.download_plugin calls of the last execute
    istatus,        \* "idle", "form", or the outcome of the last execute
    \* ---- _hydrate_plugin_info, thread by thread -------------------------
    plugins_map,    \* the mapping name -> plugin being hydrated
    orig_map,       \* plugins_map as it was passed in
    htasks,         \* list(tasks.items()): the (name, url) pairs to fetch
    hpc,            \* where the calling thread stands
    processes,      \* size of the pool, 0 before it exists
    next_task,      \* index in htasks of the next task a worker takes
    running,        \* indices of the tasks the workers are fetching
    results,        \* results put by the workers, not yet iterated over
    collected,      \* indices of the tasks whose result was assigned
    fetches,        \* name -> number of get_plugin_info calls made for it
    \* ---- build_operator_skeleton ----------------------------------------
    sparams,        \* ctx.params of build_operator_skeleton
    environ,        \* os.environ: FIFTYONE_PLUGINS_DIR or nothing
    files,          \* the file system: path -> content
    sform,          \* result of the last resolve_input
    sstatus,        \* outcome of the last execute
    sfailed,        \* the step of the last execute that raised, or None
    \* ---- build_component -----------------------------------------------
    cparams,        \* ctx.params of build_component
    cform,          \* result of the last resolve_input
    cstatus,        \* "idle", "form", or the outcome of the last execute
    \* ---- the host ------------------------------------------------------
    operator        \* the operator whose prompt the host has opened

manageVars == <<installed, enabled, mparams, mform, mcalls, mstatus>>
reqVars == <<req_str, pkg_versions, fo_version, rresult, rform>>

installVars == <<iparams, iform, icalls, istatus>>
hydrateVars == <<plugins_map, orig_map, htasks, hpc, processes, next_task,
                 running, results, collected, fetches>>
skeletonVars == <<sparams, environ, files, sform, sstatus, sfailed>>
loopVars == <<loop_i, enabled_plugins, mruns>>
componentVars == <<cparams, cform, cstatus>>

vars == <<manageVars, reqVars, installVars, hydrateVars, skeletonVars,
          loopVars, componentVars, operator>>

\* the variables an operator family leaves alone
notOperators == <<loopVars, operator>>
notManage == <<reqVars, installVars, hydrateVars, skeletonVars, componentVars,
               notOperators>>
notReq == <<manageVars, installVars, hydrateVars, skeletonVars, componentVars,
            notOperators>>
notInstall == <<manageVars, reqVars, hydrateVars, skeletonVars, componentVars,
                notOperators>>
notHydrate == <<manageVars, reqVars, installVars, skeletonVars, componentVars,
                notOperators>>
notSkeleton == <<manageVars, reqVars, installVars, hydrateVars, componentVars,
                 notOperators>>
notComponent == <<manageVars, reqVars, installVars, hydrateVars, skeletonVars,
                  notOperators>>

\* Python's Optional: None is the empty tuple, a value v the tuple <<v>>
NoneVal == <<>>
Some(v) == <<v>>

\* ========================================================================
\* manage_plugins
\* ========================================================================

PluginNames == 1..NumPlugins

\* the indices i of the enablement<i> keys a parameter bag can hold
EntryIdx == 1..NumPlugins

\* fop.list_plugins(enabled="all"): the installed plugins in listing order
RECURSIVE SortedSeq(_)
SortedSeq(S) ==
    IF S = {} THEN <<>>
    ELSE LET m == CHOOSE x \in S : \A y \in S : x <= y
         IN  <<m>> \o SortedSeq(S \ {m})

list_plugins == SortedSeq(installed)

\* One enablement<i> property of _plugin_enablement_inputs: the hidden name
\* and the switch both default to the listed plugin's state; enabled is the
\* submitted value when the bag has one, and edited tells them apart.
FormEntry(i) ==
    LET plugin == list_plugins[i]
        actual_enabled == plugin \in enabled
        shown == IF i \in DOMAIN mparams.enablement
                 THEN mparams.enablement[i].enabled
                 ELSE actual_enabled
    IN  [name |-> plugin, default |-> actual_enabled, enabled |-> shown,
         edited |-> shown # actual_enabled]

\* _plugin_enablement_inputs: the rows, the count in the notice, and whether
\* the status property is marked invalid
_plugin_enablement_inputs ==
    LET rows == [i \in 1..Len(list_plugins) |-> FormEntry(i)]
        num_edited == Cardinality({i \in 1..Len(rows) : rows[i].edited})
    IN  [tab |-> "ENABLEMENT", rows |-> rows, num_edited |-> num_edited,
         invalid |-> num_edited = 0]

\* _manage_plugins_inputs: the tab defaults to ENABLEMENT; the REQUIREMENTS
\* tab has no enablement rows
_manage_plugins_inputs ==
    LET tab == IF mparams.tab = None THEN "ENABLEMENT" ELSE mparams.tab
    IN  IF tab = "ENABLEMENT" THEN _plugin_enablement_inputs
        ELSE [tab |-> tab, rows |-> <<>>, num_edited |-> 0, invalid |-> TRUE]

\* ManagePlugins.resolve_input
ManageResolveInput ==
    /\ mstatus \in {"idle", "form"}
    /\ mform' = Some(_manage_plugins_inputs)
    /\ mstatus' = "form"
    /\ UNCHANGED <<installed, enabled, mparams, mcalls, notManage>>

\* The host keeps the values of the rendered form in ctx.params: the tab,
\* and for each row of the enablement tab its hidden name and its switch.
ManageHostStore ==
    /\ mstatus = "form"
    /\ mform # NoneVal
    /\ LET f == mform[1]
       IN  mparams' =
             [tab |-> f.tab,
              enablement |-> IF f.tab = "ENABLEMENT"
                             THEN [i \in 1..Len(f.rows) |->
                                     [name |-> f.rows[i].name,
                                      enabled |-> f.rows[i].enabled]]
                             ELSE mparams.enablement]
    /\ mparams' # mparams
    /\ UNCHANGED <<installed, enabled, mform, mcalls, mstatus, notManage>>

\* the user flips the enabled switch of row i; the form is resolved anew
\* after every change of the bag
ToggleSwitch(i) ==
    /\ mstatus = "form"
    /\ mparams.tab = "ENABLEMENT"
    /\ i \in DOMAIN mparams.enablement
    /\ mparams' = [mparams EXCEPT !.enablement[i].enabled = ~@]
    /\ mform' = NoneVal
    /\ UNCHANGED <<installed, enabled, mcalls, mstatus, notManage>>

\* the user picks a tab of the form
SelectTab(t) ==
    /\ mstatus = "form"
    /\ mparams.tab # t
    /\ mparams' = [mparams EXCEPT !.tab = t]
    /\ mform' = NoneVal
    /\ UNCHANGED <<installed, enabled, mcalls, mstatus, notManage>>

\* fop.enable_plugin / fop.disable_plugin of the registry; only installed
\* plugins are ever listed as enabled
RegistryAfter(en, name, flag) ==
    IF name \notin installed THEN en
    ELSE IF flag THEN en \cup {name} ELSE en \ {name}

\* How the registry answers the calls of one execute: failAt is the number
\* of the call that raises (0: none), missingRaises whether a call naming a
\* plugin that is not installed raises or is accepted without effect.
RegistryOutcomes == [failAt : 0..NumPlugins, missingRaises : BOOLEAN]

CallRaises(out, calls, name) ==
    \/ Len(calls) + 1 = out.failAt
    \/ name \notin installed /\ out.missingRaises

\* The loop of _plugin_enablement from entry i on.  snapshot is the set read
\* once before the loop, en the registry's enabled set, calls the calls made
\* so far, out the registry's answers.
RECURSIVE EnablementLoop(_, _, _, _, _)
\* _plugin_enablement with the two registry calls exchanged
EnablementLoopSwapped(i, snapshot, en, calls, out) ==
    IF i \notin DOMAIN mparams.enablement
    THEN [enabled |-> en, calls |-> calls, raised |-> FALSE]
    ELSE LET obj == mparams.enablement[i]
             name == obj.name
             actual_enabled == name \in snapshot
         IN  IF obj.enabled # actual_enabled
             THEN IF CallRaises(out, calls, name)
                  THEN [enabled |-> en,
                        calls |-> Append(calls, <<name, ~obj.enabled>>),
                        raised |-> TRUE]
                  ELSE EnablementLoop(i + 1, snapshot,
                                      RegistryAfter(en, name, ~obj.enabled),
                                      Append(calls, <<name, ~obj.enabled>>),
                                      out)
             ELSE EnablementLoop(i + 1, snapshot, en, calls, out)

\* _plugin_enablement applying each flag to the plugin listed i-th now
EnablementLoopByIndex(i, snapshot, en, calls, out) ==
    IF i \notin DOMAIN mparams.enablement
    THEN [enabled |-> en, calls |-> calls, raised |-> FALSE]
    ELSE LET obj == mparams.enablement[i]
             name == IF i <= Len(list_plugins) THEN list_plugins[i]
                     ELSE obj.name
             actual_enabled == name \in snapshot
         IN  IF obj.enabled # actual_enabled
             THEN IF CallRaises(out, calls, name)
                  THEN [enabled |-> en,
                        calls |-> Append(calls, <<name, obj.enabled>>),
                        raised |-> TRUE]
                  ELSE EnablementLoop(i + 1, snapshot,
                                      RegistryAfter(en, name, obj.enabled),
                                      Append(calls, <<name, obj.enabled>>),
                                      out)
             ELSE EnablementLoop(i + 1, snapshot, en, calls, out)

EnablementLoop(i, snapshot, en, calls, out) ==
    IF i \notin DOMAIN mparams.enablement
    THEN [enabled |-> en, calls |-> calls, raised |-> FALSE]
    ELSE LET obj == mparams.enablement[i]
             name == obj.name
             actual_enabled == name \in snapshot
         IN  IF obj.enabled # actual_enabled
             THEN IF CallRaises(out, calls, name)
                  THEN [enabled |-> en,
                        calls |-> Append(calls, <<name, obj.enabled>>),
                        raised |-> TRUE]
                  ELSE EnablementLoop(i + 1, snapshot,
                                      RegistryAfter(en, name, obj.enabled),
                                      Append(calls, <<name, obj.enabled>>),
                                      out)
             ELSE EnablementLoop(i + 1, snapshot, en, calls, out)

_plugin_enablement(out) == EnablementLoop(1, enabled, enabled, <<>>, out)

\* ManagePlugins.execute
ManageExecute ==
    /\ mstatus \in {"idle", "form"}
    /\ \E out \in RegistryOutcomes :
         LET r == IF mparams.tab = "ENABLEMENT"
                  THEN _plugin_enablement(out)
                  ELSE [enabled |-> enabled, calls |-> <<>>, raised |-> FALSE]
         IN  /\ enabled' = r.enabled
             /\ mcalls' = r.calls
             /\ mstatus' = IF r.raised THEN "raised" ELSE "done"
    /\ UNCHANGED <<installed, mparams, mform, notManage>>

\* the host closes the prompt after execute; the next invocation starts
\* with an empty parameter bag
ManageClose ==
    /\ mstatus \in {"done", "raised"}
    /\ mparams' = [tab |-> None, enablement |-> <<>>]
    /\ mform' = NoneVal
    /\ mcalls' = <<>>
    /\ mstatus' = "idle"
    /\ UNCHANGED <<installed, enabled, notManage>>

\* The registry is owned outside the operators: plugins are installed,
\* deleted, enabled and disabled by other means between two calls.  A form
\* resolved before the change is resolved anew before the host stores it.
RegistryChange ==
    /\ mstatus \in {"idle", "form"}
    /\ \E p \in PluginNames :
         \/ /\ p \notin installed
            /\ installed' = installed \cup {p}
            /\ \E e \in BOOLEAN : enabled' = IF e THEN enabled \cup {p} ELSE enabled
         \/ /\ p \in installed
            /\ installed' = installed \ {p}
            /\ enabled' = enabled \ {p}
         \/ /\ p \in installed
            /\ installed' = installed
            /\ enabled' = IF p \in enabled THEN enabled \ {p} ELSE enabled \cup {p}
    /\ mform' = NoneVal
    /\ UNCHANGED <<mparams, mcalls, mstatus, notManage>>

ManageIdle ==
    /\ installed = {}
    /\ enabled = {}
    /\ mparams = [tab |-> None, enablement |-> <<>>]
    /\ mform = NoneVal
    /\ mcalls = <<>>
    /\ mstatus = "idle"

ManageInit ==
    /\ installed \in SUBSET PluginNames
    /\ enabled \in SUBSET installed
    /\ mparams = [tab |-> None, enablement |-> <<>>]
    /\ mform = NoneVal
    /\ mcalls = <<>>
    /\ mstatus = "idle"

ManageNext ==
    \/ ManageResolveInput
    \/ ManageHostStore
    \/ \E i \in EntryIdx : ToggleSwitch(i)
    \/ \E t \in {"ENABLEMENT", "REQUIREMENTS"} : SelectTab(t)
    \/ ManageExecute
    \/ ManageClose
    \/ RegistryChange

\* ========================================================================
\* _plugin_enablement, one iteration of its loop at a time
\* ========================================================================

\* most enablement<i> keys in a bag that a caller builds itself
MaxEntries == 3

\* most execute calls made with one bag
MaxRuns == 2

\* the plugin names such a bag uses
LoopNames == {1, 2}

\* The bags a caller of execute can pass: any tab, and entries under any
\* of the keys enablement1..enablement<MaxEntries>, each with a name and a
\* flag.  The form produces those with the keys 1..n and distinct names.
LoopBags ==
    [tab : {None, "ENABLEMENT", "REQUIREMENTS"},
     enablement : UNION {[D -> [name : LoopNames, enabled : BOOLEAN]] :
                            D \in SUBSET (1..MaxEntries)}]

\* a lookup that goes on to the next key that is present
GetEntrySkippingGap(i) ==
    LET later == {k \in DOMAIN mparams.enablement : k >= i}
    IN  IF later = {} THEN NoneVal
        ELSE Some(mparams.enablement[CHOOSE k \in later :
                                        \A l \in later : k <= l])

\* obj = ctx.params.get(prop_name, None), prop_name being enablement<i>
GetEntry(i) ==
    IF i \in DOMAIN mparams.enablement
    THEN Some(mparams.enablement[i])
    ELSE NoneVal

\* the test of the snapshot, negated
ActualEnabledInverted(name) == name \notin enabled_plugins

\* actual_enabled = name in enabled_plugins
ActualEnabled(name) == name \in enabled_plugins

\* a loop that calls the registry for every entry
NeedsCallAlways(flag, actual_enabled) == TRUE

\* if enabled != actual_enabled
NeedsCall(flag, actual_enabled) == flag # actual_enabled

\* a call wrapped in a handler that goes on with the loop
CallStatusSwallowed(ok) == "running"

\* fop.enable_plugin / fop.disable_plugin returns, or its exception leaves
\* the loop, _plugin_enablement and execute: nothing catches it
CallStatus(ok) == IF ok THEN "running" ELSE "raised"

\* ManagePlugins.execute up to the loop: the tab is read, and on the
\* enablement tab _plugin_enablement reads the enabled plugins once and
\* sets i = 0.  A caller may run execute again with the bag it has.
LoopEnter ==
    /\ mstatus \in {"idle", "done"}
    /\ mruns < MaxRuns
    /\ mruns' = mruns + 1
    /\ mcalls' = <<>>
    /\ IF mparams.tab = "ENABLEMENT"
       THEN /\ enabled_plugins' = enabled
            /\ loop_i' = 0
            /\ mstatus' = "running"
       ELSE /\ mstatus' = "done"
            /\ UNCHANGED <<enabled_plugins, loop_i>>
    /\ UNCHANGED <<installed, enabled, mparams, mform, reqVars, installVars,
                   hydrateVars, skeletonVars, componentVars, operator>>

\* One iteration of "while True".  Each registry call is logged with its
\* name, its flag and whether it returned; a call that names a plugin the
\* registry does not hold changes nothing when it returns.
LoopIterate ==
    /\ mstatus = "running"
    /\ loop_i' = loop_i + 1
    /\ LET obj == GetEntry(loop_i + 1)
       IN  IF obj = NoneVal
           THEN /\ mstatus' = "done"
                /\ UNCHANGED <<enabled, mcalls>>
           ELSE LET name == obj[1].name
                    flag == obj[1].enabled
                    actual_enabled == ActualEnabled(name)
                IN  IF NeedsCall(flag, actual_enabled)
                    THEN \E ok \in BOOLEAN :
                           /\ mcalls' = Append(mcalls, <<name, flag, ok>>)
                           /\ enabled' = IF ok
                                         THEN RegistryAfter(enabled, name, flag)
                                         ELSE enabled
                           /\ mstatus' = CallStatus(ok)
                    ELSE UNCHANGED <<enabled, mcalls, mstatus>>
    /\ UNCHANGED <<installed, mparams, mform, enabled_plugins, mruns, reqVars,
                   installVars, hydrateVars, skeletonVars, componentVars,
                   operator>>

LoopIdle ==
    /\ loop_i = 0
    /\ enabled_plugins = {}
    /\ mruns = 0

\* execute is called with any bag, against a registry that holds any of
\* the plugins the bag can name
LoopInit ==
    /\ installed \in SUBSET LoopNames
    /\ enabled \in SUBSET installed
    /\ mparams \in LoopBags
    /\ mform = NoneVal
    /\ mcalls = <<>>
    /\ mstatus = "idle"
    /\ LoopIdle

LoopNext ==
    \/ LoopEnter
    \/ LoopIterate

\* ========================================================================
\* Requirement checks of the REQUIREMENTS tab
\* ========================================================================

\* most version clauses in one generated requirement string
MaxClauses == 2

\* A requirement string is the sequence of its tokens: a distribution name,
\* a comparison operator, a version, or the comma between two clauses.
\* Versions are counted in tenths: 9 is 0.9, 10 is 1.0, 20 is 2.0.
ReqNames == {"fiftyone", "numpy"}
ReqOps == {">=", "<", "=="}
SpecVersions == {10, 20}
InstalledVersions == {9, 15, 20}

NameTok(n) == [k |-> "name", s |-> n,   n |-> 0]
OpTok(o)   == [k |-> "op",   s |-> o,   n |-> 0]
VerTok(v)  == [k |-> "ver",  s |-> "",  n |-> v]
CommaTok   == [k |-> ",",    s |-> ",", n |-> 0]

Clauses == [op : ReqOps, n : SpecVersions]

RECURSIVE ClauseLists(_)
ClauseLists(len) ==
    IF len = 0 THEN {<<>>}
    ELSE ClauseLists(len - 1) \cup
         {Append(cs, c) : cs \in {x \in ClauseLists(len - 1) : Len(x) = len - 1},
                          c \in Clauses}

RECURSIVE ClauseToks(_)
ClauseToks(cs) ==
    IF cs = <<>> THEN <<>>
    ELSE LET c == Head(cs)
         IN  <<OpTok(c.op), VerTok(c.n)>>
             \o (IF Tail(cs) = <<>> THEN <<>> ELSE <<CommaTok>>)
             \o ClauseToks(Tail(cs))

AllClauseLists == ClauseLists(MaxClauses)

\* the strings "name", "name>=1.0", "name>=1.0,<2.0", ...
WellFormed ==
    {<<NameTok(n)>> \o ClauseToks(cs) : n \in ReqNames, cs \in AllClauseLists}

\* strings no requirement grammar accepts: the name missing, a second name
\* in place of a clause, an operator with no version after it
Malformed ==
    {Tail(t) : t \in WellFormed}
        \cup {<<t[1]>> \o t : t \in WellFormed}
        \cup {Append(t, OpTok(">=")) : t \in WellFormed}

ReqStrings == WellFormed \cup Malformed

\* the clause list of a token sequence "op ver , op ver ...", or a failure
RECURSIVE ParseClauses(_)
ParseClauses(ts) ==
    IF Len(ts) < 2 \/ ts[1].k # "op" \/ ts[2].k # "ver"
    THEN [ok |-> FALSE, specifier |-> <<>>]
    ELSE LET c == [op |-> ts[1].s, n |-> ts[2].n]
             rest == SubSeq(ts, 3, Len(ts))
         IN  IF rest = <<>>
             THEN [ok |-> TRUE, specifier |-> <<c>>]
             ELSE IF rest[1].k # ","
                  THEN [ok |-> FALSE, specifier |-> <<>>]
                  ELSE LET r == ParseClauses(Tail(rest))
                       IN  [ok |-> r.ok,
                            specifier |-> IF r.ok THEN <<c>> \o r.specifier ELSE <<>>]

\* packaging.requirements.Requirement(req_str): ok is FALSE when it raises
Requirement(ts) ==
    IF ts = <<>> \/ ts[1].k # "name"
    THEN [ok |-> FALSE, name |-> "", specifier |-> <<>>]
    ELSE IF Len(ts) = 1
         THEN [ok |-> TRUE, name |-> ts[1].s, specifier |-> <<>>]
         ELSE LET r == ParseClauses(Tail(ts))
              IN  [ok |-> r.ok,
                   name |-> IF r.ok THEN ts[1].s ELSE "",
                   specifier |-> r.specifier]

\* one clause of a specifier set against a version
ClauseContains(c, v) ==
    CASE c.op = ">=" -> v >= c.n
      [] c.op = "<"  -> v < c.n
      [] c.op = "==" -> v = c.n

\* SpecifierSet.contains(version): every clause admits the version
SpecifierContains(specifier, v) ==
    \A j \in 1..Len(specifier) : ClauseContains(specifier[j], v)

\* a variant of _check_fiftyone_requirement that counts a string it cannot
\* parse as satisfied
CheckFiftyoneLenient(ts) ==
    LET version == fo_version
        req == Requirement(ts)
    IN  [req_str |-> ts, version |-> Some(version), raised |-> FALSE,
         satisfied |-> ~req.ok \/ req.specifier = <<>>
                          \/ SpecifierContains(req.specifier, version)]

\* _check_fiftyone_requirement: one try block around parsing and matching,
\* whose bare except sets satisfied to False; nothing is left to raise
_check_fiftyone_requirement(ts) ==
    LET version == fo_version
        req == Requirement(ts)
        satisfied == IF ~req.ok THEN FALSE
                     ELSE req.specifier = <<>>
                            \/ SpecifierContains(req.specifier, version)
    IN  [req_str |-> ts, version |-> Some(version), raised |-> FALSE,
         satisfied |-> satisfied]

\* a variant of _check_package_requirement without the test that the
\* package is installed
CheckPackageNoInstallTest(ts) ==
    LET req == Requirement(ts)
        version == IF ~req.ok \/ req.name \notin DOMAIN pkg_versions
                   THEN NoneVal
                   ELSE Some(pkg_versions[req.name])
    IN  [req_str |-> ts, version |-> version, raised |-> FALSE,
         satisfied |-> IF ~req.ok THEN FALSE
                       ELSE \/ req.specifier = <<>>
                            \/ /\ version # NoneVal
                               /\ SpecifierContains(req.specifier, version[1])]

\* _check_package_requirement: three try blocks.  When Requirement raises,
\* req stays unbound, so the lookup req.name raises in the second block and
\* version is None; the third block then stops at "version is not None".
\* Every statement that can raise sits under a bare except.
_check_package_requirement(ts) ==
    LET req == Requirement(ts)
        version == IF ~req.ok THEN NoneVal
                   ELSE IF req.name \notin DOMAIN pkg_versions THEN NoneVal
                   ELSE Some(pkg_versions[req.name])
        satisfied == IF version = NoneVal THEN FALSE
                     ELSE IF ~req.ok THEN FALSE
                     ELSE req.specifier = <<>>
                            \/ SpecifierContains(req.specifier, version[1])
    IN  [req_str |-> ts, version |-> version, raised |-> FALSE,
         satisfied |-> satisfied]

\* What a plugin declares: plugin.fiftyone_requirement (a string or None)
\* and fop.load_plugin_requirements(name) (a list of strings or None)
PluginDeclarations ==
    [fiftyone_requirement : {NoneVal, Some(req_str)},
     req_strs : {NoneVal, Some(<<>>), Some(<<req_str>>)}]

\* the rows gathered by _plugin_requirements_inputs for the chosen plugin
RequirementRows(plugin) ==
    (IF plugin.fiftyone_requirement = NoneVal THEN <<>>
     ELSE <<_check_fiftyone_requirement(plugin.fiftyone_requirement[1])>>)
    \o
    (IF plugin.req_strs = NoneVal THEN <<>>
     ELSE [j \in 1..Len(plugin.req_strs[1]) |->
              _check_package_requirement(plugin.req_strs[1][j])])

NumSatisfied(rows) == Cardinality({j \in 1..Len(rows) : rows[j].satisfied})

\* _plugin_requirements_inputs with a plugin chosen: the form it builds
PluginRequirementsInputs ==
    /\ rform = NoneVal /\ rresult = NoneVal
    /\ \E plugin \in PluginDeclarations :
         LET requirements == RequirementRows(plugin)
             num_requirements == Len(requirements)
             num_satisfied == NumSatisfied(requirements)
         IN  rform' = Some([raised |-> \E j \in 1..num_requirements :
                                            requirements[j].raised,
                            rows |-> requirements,
                            num_satisfied |-> num_satisfied,
                            status |-> IF num_requirements = 0 THEN "none"
                                       ELSE IF num_satisfied = num_requirements
                                            THEN "all" ELSE "only"])
    /\ UNCHANGED <<req_str, pkg_versions, fo_version, rresult, notReq>>

CheckFiftyoneRequirement ==
    /\ rresult = NoneVal /\ rform = NoneVal
    /\ rresult' = Some([fn |-> "fiftyone",
                        out |-> _check_fiftyone_requirement(req_str)])
    /\ UNCHANGED <<req_str, pkg_versions, fo_version, rform, notReq>>

CheckPackageRequirement ==
    /\ rresult = NoneVal /\ rform = NoneVal
    /\ rresult' = Some([fn |-> "package",
                        out |-> _check_package_requirement(req_str)])
    /\ UNCHANGED <<req_str, pkg_versions, fo_version, rform, notReq>>

\* the next string is checked
NextRequirement ==
    /\ rresult # NoneVal \/ rform # NoneVal
    /\ rresult' = NoneVal
    /\ rform' = NoneVal
    /\ UNCHANGED <<req_str, pkg_versions, fo_version, notReq>>

ReqIdle ==
    /\ req_str = <<>>
    /\ pkg_versions = <<>>
    /\ fo_version = 9
    /\ rresult = NoneVal
    /\ rform = NoneVal

ReqInit ==
    /\ req_str \in ReqStrings
    /\ \E v \in InstalledVersions \cup {0} :
          pkg_versions = IF v = 0 THEN [x \in {} |-> 0] ELSE [x \in {"numpy"} |-> v]
    /\ fo_version \in InstalledVersions
    /\ rresult = NoneVal
    /\ rform = NoneVal

ReqNext ==
    \/ CheckFiftyoneRequirement
    \/ CheckPackageRequirement
    \/ PluginRequirementsInputs
    \/ NextRequirement

\* ========================================================================
\* install_plugin
\* ========================================================================

\* number of plugin names the repositories and the zoo offer
MaxNames == 2

RemoteNames == 1..MaxNames

\* The world outside: what find_plugins discovers at each repository and
\* what get_zoo_plugins lists.  A descriptor is its name, its url and, when
\* the listing carries one, its version.
Repos == {"empty/repo", "one/repo", "many/repo"}

\* a location is a repository reference or the url of one plugin
RepoRef(r) == [repo |-> r, plugin |-> 0]
UrlOf(name) == [repo |-> "url", plugin |-> name]
NameAt(url) == url.plugin

\* version of every installed plugin, and the version found remotely
InstalledVersion == 1
RemoteVersion == 2

Descriptor(name, withVersion) ==
    [name |-> name, url |-> UrlOf(name),
     version |-> IF withVersion THEN Some(RemoteVersion) ELSE NoneVal]

RepoPluginNames(gh_repo) ==
    CASE gh_repo = "empty/repo" -> <<>>
      [] gh_repo = "one/repo"   -> <<1>>
      [] gh_repo = "many/repo"  -> SortedSeq(RemoteNames)

\* find_plugins(gh_repo)
find_plugins(gh_repo, withVersion) ==
    [j \in 1..Len(RepoPluginNames(gh_repo)) |->
        Descriptor(RepoPluginNames(gh_repo)[j], withVersion)]

\* get_zoo_plugins(): the Voxel51 list and the community list
ZooVoxel51Names == <<1>>
ZooCommunityNames == SortedSeq(RemoteNames \ {1})

get_zoo_plugins(withVersion) ==
    [voxel51 |-> [j \in 1..Len(ZooVoxel51Names) |->
                     Descriptor(ZooVoxel51Names[j], withVersion)],
     community |-> [j \in 1..Len(ZooCommunityNames) |->
                     Descriptor(ZooCommunityNames[j], withVersion)]]

\* get_plugin_info(url)
get_plugin_info(url) ==
    [name |-> NameAt(url), url |-> url, version |-> Some(RemoteVersion)]

\* How the collaborators answer during one call: which of them raises
\* when it is called (find_plugins, get_zoo_plugins, fop.list_plugins,
\* get_plugin_info, fop.download_plugin, or none), and whether the listed
\* descriptors carry a version.
Outcomes ==
    [fails : {"none", "find", "zoo", "list", "info", "download"},
     withVersion : BOOLEAN]

SeqRange(q) == {q[j] : j \in 1..Len(q)}

\* _hydrate_plugin_info as one step: the mapping it leaves, or the
\* exception of a failed fetch
HydrateResult(pmap, out) ==
    LET tasks == {n \in DOMAIN pmap : pmap[n].version = NoneVal}
    IN  IF tasks # {} /\ out.fails = "info"
        THEN [raised |-> TRUE, map |-> pmap]
        ELSE [raised |-> FALSE,
              map |-> [n \in DOMAIN pmap |->
                          IF n \in tasks THEN get_plugin_info(pmap[n].url)
                          ELSE pmap[n]]]

\* _get_updates(plugin_names, plugins)
_get_updates(plugin_names, plugins, out) ==
    IF out.fails = "list"
    THEN [raised |-> TRUE, failure |-> "list", updates |-> <<>>]
    ELSE
    LET update_names == SortedSeq(SeqRange(plugin_names) \cap installed)
        found == {j \in 1..Len(plugins) : plugins[j].name \in SeqRange(update_names)}
        pmap == [n \in {plugins[j].name : j \in found} |->
                          plugins[CHOOSE j \in found : plugins[j].name = n]]
        hyd == HydrateResult(pmap, out)
    IN  IF update_names = <<>>
        THEN [raised |-> FALSE, failure |-> "none", updates |-> <<>>]
        ELSE IF hyd.raised
        THEN [raised |-> TRUE, failure |-> "info", updates |-> <<>>]
        ELSE IF \E n \in SeqRange(update_names) : n \notin DOMAIN hyd.map
             THEN [raised |-> TRUE, failure |-> "none", updates |-> <<>>]
             ELSE [raised |-> FALSE, failure |-> "none",
                   updates |-> [j \in 1..Len(update_names) |->
                        <<update_names[j], InstalledVersion,
                          hyd.map[update_names[j]].version[1]>>]]

\* the tail of _install_plugin_inputs once plugin_names is known
UpdateNotice(form, plugin_names, plugins, out) ==
    LET u == _get_updates(plugin_names, plugins, out)
    IN  [props |-> IF ~u.raised /\ u.updates # <<>>
                   THEN form \o <<"update_str", "update_notice">>
                   ELSE form,
         invalid |-> {}, raised |-> u.raised, failure |-> u.failure,
         updates |-> u.updates]

NamesOf(plugins) == [j \in 1..Len(plugins) |-> plugins[j].name]

\* a variant of the GITHUB branch without the return that follows the
\* error view: control reaches "if not plugins" with plugins unbound
GithubInputsNoReturn(out) ==
    LET form == <<"tab", "gh_repo_instructions", "gh_repo">>
        gh_repo == iparams.gh_repo
        plugins == find_plugins(gh_repo[1].repo, out.withVersion)
        form2 == IF Len(plugins) > 1 THEN Append(form, "plugin_names") ELSE form
        plugin_names == IF iparams.plugin_names = NoneVal
                           \/ iparams.plugin_names = Some(<<>>)
                        THEN NamesOf(plugins)
                        ELSE iparams.plugin_names[1]
    IN  IF gh_repo = NoneVal
        THEN [props |-> form, invalid |-> {}, raised |-> FALSE,
              failure |-> "none", updates |-> <<>>]
        ELSE IF out.fails = "find"
        THEN [props |-> Append(form, "error"), invalid |-> {"error"},
              raised |-> TRUE, failure |-> "find", updates |-> <<>>]
        ELSE IF plugins = <<>>
        THEN [props |-> Append(form, "warning"), invalid |-> {"warning"},
              raised |-> FALSE, failure |-> "none", updates |-> <<>>]
        ELSE UpdateNotice(form2, plugin_names, plugins, out)

\* the GITHUB branch of _install_plugin_inputs
GithubInputs(out) ==
    LET form == <<"tab", "gh_repo_instructions", "gh_repo">>
        gh_repo == iparams.gh_repo
        plugins == find_plugins(gh_repo[1].repo, out.withVersion)
        form2 == IF Len(plugins) > 1 THEN Append(form, "plugin_names") ELSE form
        plugin_names == IF iparams.plugin_names = NoneVal
                           \/ iparams.plugin_names = Some(<<>>)
                        THEN NamesOf(plugins)
                        ELSE iparams.plugin_names[1]
    IN  IF gh_repo = NoneVal
        THEN [props |-> form, invalid |-> {}, raised |-> FALSE,
              failure |-> "none", updates |-> <<>>]
        ELSE IF out.fails = "find"
        THEN [props |-> Append(form, "error"), invalid |-> {"error"},
              raised |-> FALSE, failure |-> "find", updates |-> <<>>]
        ELSE IF plugins = <<>>
        THEN [props |-> Append(form, "warning"), invalid |-> {"warning"},
              raised |-> FALSE, failure |-> "none", updates |-> <<>>]
        ELSE UpdateNotice(form2, plugin_names, plugins, out)

\* the VOXEL51 / COMMUNITY branch of _install_plugin_inputs
ZooInputs(tab, out) ==
    LET form == <<"tab">>
        zoo == get_zoo_plugins(out.withVersion)
        param == IF tab = "VOXEL51" THEN "voxel51_plugin" ELSE "community_plugin"
        plugins == IF tab = "VOXEL51" THEN zoo.voxel51 ELSE zoo.community
        plugin_name == IF tab = "VOXEL51" THEN iparams.voxel51_plugin
                       ELSE iparams.community_plugin
    IN  IF out.fails = "zoo"
        THEN [props |-> Append(form, "error"), invalid |-> {"error"},
              raised |-> FALSE, failure |-> "zoo", updates |-> <<>>]
        ELSE IF plugin_name = NoneVal
        THEN [props |-> Append(form, param), invalid |-> {}, raised |-> FALSE,
              failure |-> "none", updates |-> <<>>]
        ELSE UpdateNotice(Append(form, param), <<plugin_name[1]>>, plugins, out)

\* _install_plugin_inputs(ctx, inputs)
_install_plugin_inputs(out) ==
    LET tab == IF iparams.tab = None THEN "GITHUB" ELSE iparams.tab
    IN  IF tab = "GITHUB" THEN GithubInputs(out) ELSE ZooInputs(tab, out)

\* a resolve_input that writes the default of the tab selector into the bag
InstallResolveInputStoringTab ==
    /\ istatus \in {"idle", "form"}
    /\ \E out \in Outcomes :
         LET r == _install_plugin_inputs(out)
         IN  iform' = Some(r)
    /\ istatus' = "form"
    /\ iparams' = [iparams EXCEPT !.tab = IF @ = None THEN "GITHUB" ELSE @]
    /\ UNCHANGED <<icalls, notInstall>>

\* InstallPlugin.resolve_input
InstallResolveInput ==
    /\ istatus \in {"idle", "form"}
    /\ \E out \in Outcomes :
         LET r == _install_plugin_inputs(out)
         IN  iform' = Some(r)
    /\ istatus' = "form"
    /\ UNCHANGED <<iparams, icalls, notInstall>>

\* the user fills a field of the install form
InstallEdit ==
    /\ istatus \in {"idle", "form"}
    /\ \/ \E t \in {"GITHUB", "VOXEL51", "COMMUNITY"} :
            iparams' = [iparams EXCEPT !.tab = t]
       \/ \E r \in Repos : iparams' = [iparams EXCEPT !.gh_repo = Some(RepoRef(r))]
       \/ \E S \in SUBSET RemoteNames :
            iparams' = [iparams EXCEPT !.plugin_names = Some(SortedSeq(S))]
       \/ \E n \in SeqRange(ZooVoxel51Names) :
            iparams' = [iparams EXCEPT !.voxel51_plugin = Some(n)]
       \/ \E n \in SeqRange(ZooCommunityNames) :
            iparams' = [iparams EXCEPT !.community_plugin = Some(n)]
    /\ iparams' # iparams
    /\ iform' = NoneVal
    /\ istatus' = "idle"
    /\ UNCHANGED <<icalls, notInstall>>

\* the host keeps the default of the tab selector in ctx.params
InstallHostStore ==
    /\ istatus = "form"
    /\ iparams.tab = None
    /\ iparams' = [iparams EXCEPT !.tab = "GITHUB"]
    /\ UNCHANGED <<iform, icalls, istatus, notInstall>>

\* a lookup that returns the url of the first plugin of the zoo
GetZooPluginLocationFirst(plugin_name, out) ==
    LET zoo == get_zoo_plugins(out.withVersion)
        all == zoo.voxel51 \o zoo.community
    IN  IF all = <<>> THEN NoneVal ELSE Some(all[1].url)

\* _get_zoo_plugin_location(plugin_name): None when no zoo plugin has the name
_get_zoo_plugin_location(plugin_name, out) ==
    LET zoo == get_zoo_plugins(out.withVersion)
        all == zoo.voxel51 \o zoo.community
        hits == {j \in 1..Len(all) : all[j].name = plugin_name}
    IN  IF hits = {} THEN NoneVal
        ELSE Some(all[CHOOSE j \in hits : \A k \in hits : j <= k].url)

\* _install_plugin(ctx): the download_plugin call it makes, or the exception
\* raised before the call
_install_plugin(out) ==
    LET tab == iparams.tab
    IN  CASE tab = "GITHUB" ->
               IF iparams.gh_repo = NoneVal
               THEN [raised |-> TRUE, calls |-> <<>>]
               ELSE [raised |-> FALSE,
                     calls |-> <<[gh_repo |-> iparams.gh_repo,
                                  plugin_names |-> iparams.plugin_names,
                                  overwrite |-> TRUE]>>]
          [] tab = "VOXEL51" ->
               IF iparams.voxel51_plugin = NoneVal \/ out.fails = "zoo"
               THEN [raised |-> TRUE, calls |-> <<>>]
               ELSE [raised |-> FALSE,
                     calls |-> <<[gh_repo |-> _get_zoo_plugin_location(
                                                  iparams.voxel51_plugin[1], out),
                                  plugin_names |-> Some(<<iparams.voxel51_plugin[1]>>),
                                  overwrite |-> TRUE]>>]
          [] tab = "COMMUNITY" ->
               IF iparams.community_plugin = NoneVal \/ out.fails = "zoo"
               THEN [raised |-> TRUE, calls |-> <<>>]
               ELSE [raised |-> FALSE,
                     calls |-> <<[gh_repo |-> _get_zoo_plugin_location(
                                                  iparams.community_plugin[1], out),
                                  plugin_names |-> Some(<<iparams.community_plugin[1]>>),
                                  overwrite |-> TRUE]>>]
          [] OTHER -> [raised |-> TRUE, calls |-> <<>>]

\* The plugins fop.download_plugin installs for one call: those found at
\* the location, all of them when plugin_names is None, and otherwise the
\* ones whose name is in plugin_names (none when the list is empty).
Downloaded(call) ==
    IF call.gh_repo = NoneVal THEN {}
    ELSE LET there == IF call.gh_repo[1].repo \in Repos
                      THEN SeqRange(RepoPluginNames(call.gh_repo[1].repo))
                      ELSE {NameAt(call.gh_repo[1])}
         IN  IF call.plugin_names = NoneVal
             THEN there
             ELSE there \cap SeqRange(call.plugin_names[1])

\* InstallPlugin.execute
InstallExecute ==
    /\ istatus \in {"idle", "form"}
    /\ \E out \in Outcomes :
         LET r == _install_plugin(out)
             fails == r.raised \/ out.fails = "download"
         IN  /\ icalls' = r.calls
             /\ istatus' = IF fails THEN "raised" ELSE "done"
             /\ installed' = IF fails THEN installed
                             ELSE installed \cup Downloaded(r.calls[1])
    /\ iform' = NoneVal
    /\ UNCHANGED <<iparams, enabled, mparams, mform, mcalls, mstatus, reqVars,
                   hydrateVars, skeletonVars, componentVars, notOperators>>

\* the host closes the prompt; the next invocation starts with an empty bag
InstallClose ==
    /\ istatus \in {"done", "raised"}
    /\ iparams' = [tab |-> None, gh_repo |-> NoneVal, plugin_names |-> NoneVal,
                   voxel51_plugin |-> NoneVal, community_plugin |-> NoneVal]
    /\ iform' = NoneVal
    /\ icalls' = <<>>
    /\ istatus' = "idle"
    /\ UNCHANGED notInstall

InstallIdle ==
    /\ iparams = [tab |-> None, gh_repo |-> NoneVal, plugin_names |-> NoneVal,
                  voxel51_plugin |-> NoneVal, community_plugin |-> NoneVal]
    /\ iform = NoneVal
    /\ icalls = <<>>
    /\ istatus = "idle"

InstallNext ==
    \/ InstallResolveInput
    \/ InstallHostStore
    \/ InstallEdit
    \/ InstallExecute
    \/ InstallClose

\* ========================================================================
\* _hydrate_plugin_info, with the threads of its pool
\* ========================================================================

\* most plugins in the mapping passed to _hydrate_plugin_info
MaxTasks == 5

\* the cap on the pool size in "processes = min(num_tasks, 4)"
MaxPoolSize == 4

TaskNames == 1..MaxTasks

Min(a, b) == IF a <= b THEN a ELSE b

\* the mappings that can be passed in: any plugins, each with or without
\* a version
InputMaps ==
    UNION {[D -> {TRUE, FALSE}] : D \in SUBSET TaskNames}

MapOf(hasVersion) ==
    [n \in DOMAIN hasVersion |-> Descriptor(n, hasVersion[n])]

\* tasks of lines 232-235, as list(tasks.items()): the plugins without a
\* version, in the order of the mapping
TasksOf(map) ==
    LET names == SortedSeq({n \in DOMAIN map : map[n].version = NoneVal})
    IN  [j \in 1..Len(names) |-> <<names[j], map[names[j]].url>>]

\* a pool as large as the task list
PoolProcessesUncapped(num_tasks) == num_tasks

\* processes = min(num_tasks, 4)
PoolProcesses(num_tasks) == Min(num_tasks, MaxPoolSize)

\* a worker that labels every result with the name of the last task
DoGetPluginInfoLastName(task) == <<htasks[Len(htasks)][1], get_plugin_info(task[2])>>

\* _do_get_plugin_info(task)
_do_get_plugin_info(task) == <<task[1], get_plugin_info(task[2])>>

CountFetch(name) == [fetches EXCEPT ![name] = @ + 1]

\* lines 232-247: build the tasks; return when there are none; with one
\* task call get_plugin_info directly; in every other case open the pool
HydrateStart ==
    /\ hpc = "start"
    /\ LET tasks == TasksOf(plugins_map)
           num_tasks == Len(tasks)
       IN  /\ htasks' = tasks
           /\ IF num_tasks = 0
              THEN /\ hpc' = "done"
                   /\ UNCHANGED <<processes, fetches>>
              ELSE IF num_tasks = 1
              THEN /\ hpc' = "direct"
                   /\ fetches' = CountFetch(tasks[1][1])
                   /\ UNCHANGED processes
              ELSE /\ hpc' = "pool"
                   /\ processes' = PoolProcesses(num_tasks)
                   /\ UNCHANGED fetches
    /\ UNCHANGED <<plugins_map, orig_map, next_task, running, results, collected,
                   notHydrate>>

\* lines 244-249 with one task: the direct call returns and its info is
\* assigned; no return follows, so the pool is opened for the same task.
\* A call that raises ends _hydrate_plugin_info.
HydrateDirectReturn ==
    /\ hpc = "direct"
    /\ \E ok \in BOOLEAN :
         IF ok
         THEN /\ plugins_map' = [plugins_map EXCEPT
                    ![htasks[1][1]] = get_plugin_info(htasks[1][2])]
              /\ processes' = PoolProcesses(Len(htasks))
              /\ hpc' = "pool"
         ELSE /\ hpc' = "raised"
              /\ UNCHANGED <<plugins_map, processes>>
    /\ UNCHANGED <<orig_map, htasks, next_task, running, results, collected,
                   fetches, notHydrate>>

\* an idle worker thread of the pool takes the next task and calls
\* get_plugin_info
WorkerTake ==
    /\ hpc = "pool"
    /\ Cardinality(running) < processes
    /\ next_task <= Len(htasks)
    /\ running' = running \cup {next_task}
    /\ fetches' = CountFetch(htasks[next_task][1])
    /\ next_task' = next_task + 1
    /\ UNCHANGED <<plugins_map, orig_map, htasks, hpc, processes, results,
                   collected, notHydrate>>

\* the call of a worker returns or raises; the worker puts the result.  A
\* call in flight when the pool is terminated still comes to its end.
WorkerFinish(t) ==
    /\ t \in running
    /\ running' = running \ {t}
    /\ \E ok \in BOOLEAN :
         results' = results \cup {[task |-> t, ok |-> ok,
                                   value |-> _do_get_plugin_info(htasks[t])]}
    /\ UNCHANGED <<plugins_map, orig_map, htasks, hpc, processes, next_task,
                   collected, fetches, notHydrate>>

\* lines 250-251: the loop over imap_unordered takes a result, in whatever
\* order the results arrived, and assigns it; a result that carries an
\* exception raises it, which leaves the with block and ends the pool
MainCollect(r) ==
    /\ hpc = "pool"
    /\ r \in results
    /\ results' = results \ {r}
    /\ IF r.ok
       THEN /\ plugins_map' = [plugins_map EXCEPT ![r.value[1]] = r.value[2]]
            /\ collected' = collected \cup {r.task}
            /\ hpc' = IF collected' = 1..Len(htasks) THEN "done" ELSE "pool"
       ELSE /\ hpc' = "raised"
            /\ UNCHANGED <<plugins_map, collected>>
    /\ UNCHANGED <<orig_map, htasks, processes, next_task, running, fetches,
                   notHydrate>>

HydrateIdle ==
    /\ plugins_map = <<>>
    /\ orig_map = <<>>
    /\ htasks = <<>>
    /\ hpc = "idle"
    /\ processes = 0
    /\ next_task = 1
    /\ running = {}
    /\ results = {}
    /\ collected = {}
    /\ fetches = [n \in TaskNames |-> 0]

HydrateInit ==
    /\ \E hv \in InputMaps : plugins_map = MapOf(hv)
    /\ orig_map = plugins_map
    /\ htasks = <<>>
    /\ hpc = "start"
    /\ processes = 0
    /\ next_task = 1
    /\ running = {}
    /\ results = {}
    /\ collected = {}
    /\ fetches = [n \in TaskNames |-> 0]

HydrateNext ==
    \/ HydrateStart
    \/ HydrateDirectReturn
    \/ WorkerTake
    \/ \E t \in TaskNames : WorkerFinish(t)
    \/ \E r \in results : MainCollect(r)

\* ========================================================================
\* build_operator_skeleton: the wizard, the generated code, the two files
\* ========================================================================

\* most keys in the parameter bag of the wizard
MaxParams == 4

\* ctx.params.get(key, default)
Get(params, key, default) ==
    IF key \in DOMAIN params THEN params[key] ELSE default

\* A generated text is the sequence of its non-blank lines; a line is its
\* indentation, its fixed text and the value substituted into it.  Blank
\* lines are left out, so the two steps that only remove blank lines
\* (.replace("\n\n", "\n") and replace_extra_newlines) do not appear.
L(ind, txt, arg) == [ind |-> ind, txt |-> txt, arg |-> arg]

MinIndent(text) ==
    IF text = <<>> THEN 0
    ELSE CHOOSE m \in {text[j].ind : j \in 1..Len(text)} :
            \A j \in 1..Len(text) : m <= text[j].ind

\* textwrap.dedent: the common leading whitespace is removed
dedent(text) ==
    [j \in 1..Len(text) |-> [text[j] EXCEPT !.ind = @ - MinIndent(text)]]

\* indent_code(code)
indent_code(code) ==
    LET dedented_code == dedent(code)
    IN  [j \in 1..Len(dedented_code) |->
            [dedented_code[j] EXCEPT !.ind = @ + 4]]

Ok(text) == [raised |-> FALSE, text |-> text]
ValueError == [raised |-> TRUE, text |-> <<>>]

\* the bags of the model carry booleans as "True" and "False"
Truthy(v) == v = "True"

\* _create_operator_config_code(ctx).  config_bool_props and
\* config_icon_props are in no bag of the model, so their defaults apply:
\* no flag line, and the line of the icon.
_create_operator_config_code(params) ==
    LET operator_name == Get(params, "operator_name", "my_operator")
        operator_label == Get(params, "operator_label", "My Operator")
        operator_description ==
            Get(params, "operator_description", "My Operator Description")
    IN  dedent(<<L(4, "@property", ""),
                 L(4, "def config(self):", ""),
                 L(8, "_config = foo.OperatorConfig(", ""),
                 L(12, "name=", operator_name),
                 L(12, "label=", operator_label),
                 L(12, "description=", operator_description),
                 L(8, ")", ""),
                 L(8, "_config.icon = ", "/path/to/icon.svg"),
                 L(8, "return _config", "")>>)

\* _operator_skeleton_input_code(ctx)
_operator_skeleton_input_code(params) ==
    LET has_input == Truthy(Get(params, "operator_input_has_input", "False"))
        delegation == Get(params, "delegated_execution_choices", "False")
        deleg_user_choice == delegation = "User Choice"
    IN  dedent(
        IF has_input /\ ~deleg_user_choice
        THEN <<L(8, "def resolve_input(self, ctx):", ""),
               L(12, "inputs = types.Object()", ""),
               L(12, "### Add your inputs here ###", ""),
               L(12, "return types.Property(inputs)", "")>>
        ELSE IF has_input /\ deleg_user_choice
        THEN <<L(8, "def resolve_input(self, ctx):", ""),
               L(12, "inputs = types.Object()", ""),
               L(12, "### Add your inputs here ###", ""),
               L(12, "_execution_mode(ctx, inputs)", ""),
               L(12, "return types.Property(inputs)", "")>>
        ELSE IF deleg_user_choice
        THEN <<L(8, "def resolve_input(self, ctx):", ""),
               L(12, "inputs = types.Object()", ""),
               L(12, "_execution_mode(ctx, inputs)", ""),
               L(12, "return types.Property(inputs)", "")>>
        ELSE <<L(8, "def resolve_input(self, ctx):", ""),
               L(12, "pass", "")>>)

TRIGGER_CHOICES ==
    <<"Reload Samples", "Reload Dataset", "Set View", "Open A Panel">>

LAYOUT_CHOICES == <<"Horizontal", "Vertical">>

_get_panel_choices == <<"Embeddings", "Histograms">>

\* _operator_skeleton_execution_code(ctx)
_operator_skeleton_execution_code(params) ==
    LET has_trigger ==
            Truthy(Get(params, "operator_execution_has_trigger", "False"))
        trigger_type ==
            Get(params, "operator_execution_trigger", TRIGGER_CHOICES[1])
        panel_type ==
            Get(params, "operator_execution_trigger_panel",
                _get_panel_choices[1])
        layout_type ==
            Get(params, "operator_execution_trigger_layout", LAYOUT_CHOICES[1])
    IN  IF ~has_trigger
        THEN Ok(dedent(<<L(8, "def execute(self, ctx):", ""),
                         L(12, "### Your logic here ###", ""),
                         L(12, "return {}", "")>>))
        ELSE IF trigger_type = "Reload Samples"
        THEN Ok(dedent(<<L(12, "def execute(self, ctx):", ""),
                         L(16, "### Your logic here ###", ""),
                         L(16, "ctx.trigger(", "reload_samples"),
                         L(16, "return {}", "")>>))
        ELSE IF trigger_type = "Reload Dataset"
        THEN Ok(dedent(<<L(12, "def execute(self, ctx):", ""),
                         L(16, "### Your logic here ###", ""),
                         L(16, "ctx.trigger(", "reload_dataset"),
                         L(16, "return {}", "")>>))
        ELSE IF trigger_type = "Set View"
        THEN Ok(dedent(<<L(12, "def execute(self, ctx):", ""),
                         L(16, "### Your logic here ###", ""),
                         L(16, "### Create your view here ###", ""),
                         L(16, "view = ctx.dataset.take(10)", ""),
                         L(16, "ctx.trigger(", ""),
                         L(20, "", "set_view"),
                         L(20, "params=dict(view=serialize_view(view)),", ""),
                         L(16, ")", ""),
                         L(16, "return {}", "")>>))
        ELSE IF trigger_type = "Open A Panel"
        THEN Ok(dedent(<<L(12, "def execute(self, ctx):", ""),
                         L(16, "### Your logic here ###", ""),
                         L(16, "ctx.trigger(", ""),
                         L(20, "", "open_panel"),
                         L(20, "params=dict(", ""),
                         L(24, "name=", panel_type),
                         L(24, "isActive=True, ", ""),
                         L(24, "layout=", layout_type),
                         L(24, "),", ""),
                         L(16, ")", ""),
                         L(16, "return {}", "")>>))
        ELSE ValueError

\* _operator_skeleton_delegation_code(ctx)
_operator_skeleton_delegation_code(params) ==
    LET delegated_execution ==
            Get(params, "delegated_execution_choices", "False")
    IN  IF delegated_execution = "False"
        THEN Ok(<<>>)
        ELSE IF delegated_execution = "True"
        THEN Ok(dedent(<<L(8, "def resolve_delegation(self, ctx):", ""),
                         L(12, "True", "")>>))
        ELSE IF delegated_execution = "User Choice"
        THEN Ok(dedent(<<L(8, "def resolve_delegation(self, ctx):", ""),
                         L(12, "return ctx.params.get(", "delegate")>>))
        ELSE ValueError

\* _operator_skeleton_output_code(ctx)
_operator_skeleton_output_code(params) ==
    LET has_output ==
            Truthy(Get(params, "operator_output_has_output", "False"))
    IN  IF has_output
        THEN dedent(<<L(8, "def resolve_output(self, ctx):", ""),
                      L(12, "outputs = types.Object()", ""),
                      L(12, "### Add your outputs here ###", ""),
                      L(12, "return types.Property(outputs)", "")>>)
        ELSE <<>>

PLACEMENTS ==
    <<"SAMPLES-GRID-ACTIONS", "SAMPLES-GRID-SECONDARY-ACTIONS",
      "SAMPLES-VIEWER-ACTIONS">>

\* _operator_skeleton_placement_code(ctx)
_operator_skeleton_placement_code(params) ==
    LET has_placement ==
            Truthy(Get(params, "operator_placement_has_placement", "False"))
        placement == Get(params, "operator_placement", PLACEMENTS[1])
        placement_label == Get(params, "placement_label", "My Placement Label")
        placement_prompt == Get(params, "placement_prompt", "False")
        placement_has_icon == Truthy(Get(params, "placement_has_icon", "True"))
        placement_icon ==
            IF placement_has_icon
            THEN Get(params, "placement_icon", "/path/to/icon.svg")
            ELSE "None"
    IN  IF has_placement
        THEN dedent(<<L(8, "def resolve_placement(self, ctx):", ""),
                      L(12, "return types.Placement(", ""),
                      L(16, "types.Places.", placement),
                      L(16, "label = ", placement_label),
                      L(16, "icon = ", placement_icon),
                      L(16, "prompt = ", placement_prompt),
                      L(12, ")", "")>>)
        ELSE <<>>

\* operator_name.replace("_", " ").title().replace(" ", ""), for the
\* operator names of the model
_create_operator_class_name(params) ==
    LET operator_name == Get(params, "operator_name", "my_operator")
    IN  CASE operator_name = "my_operator"   -> "MyOperator"
          [] operator_name = "count_samples" -> "CountSamples"

\* _create_class_header(ctx)
_create_class_header(params) ==
    <<L(0, "class (foo.Operator):", _create_operator_class_name(params))>>

\* _create_footer(ctx)
_create_footer(params) ==
    dedent(<<L(4, "def register(plugin):", ""),
             L(8, "plugin.register()", _create_operator_class_name(params))>>)

IMPORTS_CODE ==
    <<L(0, "import fiftyone as fo", ""),
      L(0, "import fiftyone.operators as foo", ""),
      L(0, "from fiftyone.operators import types", "")>>

\* the first and the last statement of the helper; no line of it depends
\* on the bag
EXECUTION_MODE_CODE ==
    <<L(0, "def _execution_mode(ctx, inputs):", ""),
      L(4, "delegate = ctx.params.get(", "delegate"),
      L(4, "if delegate:", ""),
      L(8, "inputs.view(", "notice")>>

SERIALIZE_VIEW_CODE ==
    <<L(0, "def serialize_view(view):", ""),
      L(4, "return json.loads(json_util.dumps(view._serialize()))", "")>>

\* _create_operator_skeleton_code(ctx): a ValueError of the execution or
\* of the delegation section ends it
_create_operator_skeleton_code(params) ==
    LET exec == _operator_skeleton_execution_code(params)
        deleg == _operator_skeleton_delegation_code(params)
        code == indent_code(_create_operator_config_code(params)
                            \o _operator_skeleton_input_code(params)
                            \o exec.text
                            \o deleg.text
                            \o _operator_skeleton_output_code(params)
                            \o _operator_skeleton_placement_code(params))
        class_header == _create_class_header(params)
        set_view == Get(params, "operator_execution_trigger", None) = "Set View"
        header ==
            (IF set_view
             THEN <<L(0, "import json", ""),
                    L(0, "from bson import json_util", "")>>
             ELSE <<>>)
            \o IMPORTS_CODE
            \o (IF Get(params, "delegated_execution_choices", "False")
                      = "User Choice"
                THEN EXECUTION_MODE_CODE ELSE <<>>)
            \o (IF set_view THEN SERIALIZE_VIEW_CODE ELSE <<>>)
            \o class_header
        footer == _create_footer(params)
    IN  IF exec.raised \/ deleg.raised
        THEN ValueError
        ELSE Ok(header \o code \o footer)

\* _create_fiftyone_yml_code(ctx)
_create_fiftyone_yml_code(params) ==
    LET plugin_name ==
            Get(params, "plugin_name", "@github_username/plugin_name")
        plugin_description ==
            Get(params, "plugin_description", "My Plugin Description")
        operator_name == Get(params, "operator_name", "my_operator")
    IN  dedent(<<L(4, "name: ", plugin_name),
                 L(4, "version: ", "0.0.1"),
                 L(4, "description: ", plugin_description),
                 L(4, "operators:", ""),
                 L(6, "- ", operator_name)>>)

\* operator_skeleton_tabs, written without the pictograph that starts
\* each of them
operator_skeleton_tabs ==
    <<"1 Config & Placement", "2 Input & Output", "3 Execution & Delegation",
      "4 Preview Code", "Create">>

\* word in main_tab, for the tabs above
InTab(word, main_tab) ==
    \/ word = "Config" /\ main_tab = operator_skeleton_tabs[1]
    \/ word = "Input" /\ main_tab = operator_skeleton_tabs[2]
    \/ word = "Execution" /\ main_tab = operator_skeleton_tabs[3]
    \/ word = "Code" /\ main_tab = operator_skeleton_tabs[4]

\* what a flow adds to the form: the names of its properties and, on the
\* preview tab, the code it shows
Flow(props) == [raised |-> FALSE, props |-> props, code |-> <<>>]

\* _operator_skeleton_tabs_input(inputs)
_operator_skeleton_tabs_input == <<"operator_skeleton_tab">>

\* _operator_skeleton_config_flow(ctx, inputs)
_operator_skeleton_config_flow(params) ==
    <<"operator_skeleton_config_header", "operator_name", "operator_label",
      "operator_description", "config_bool_props", "config_icon_props">>

\* _operator_skeleton_placement_flow(ctx, inputs)
_operator_skeleton_placement_flow(params) ==
    <<"operator_skeleton_placement_header",
      "operator_placement_has_placement">>
    \o (IF Truthy(Get(params, "operator_placement_has_placement", "False"))
        THEN <<"operator_placement", "placement_label", "placement_has_icon",
               "placement_icon", "placement_prompt">>
        ELSE <<>>)

\* _operator_skeleton_io_flow(ctx, inputs)
_operator_skeleton_io_flow(params) ==
    <<"operator_skeleton_io_header", "operator_input_has_input",
      "operator_output_has_output">>

\* _operator_skeleton_execution_flow(ctx, inputs)
_operator_skeleton_execution_flow(params) ==
    LET has_trigger ==
            Truthy(Get(params, "operator_execution_has_trigger", "False"))
        trigger_type ==
            Get(params, "operator_execution_trigger", TRIGGER_CHOICES[1])
    IN  <<"operator_skeleton_execution_header",
          "operator_execution_has_trigger">>
        \o (IF has_trigger
            THEN <<"header", "operator_execution_trigger">>
                 \o (IF trigger_type = "Open A Panel"
                     THEN <<"operator_execution_trigger_panel",
                            "operator_execution_trigger_layout">>
                     ELSE <<>>)
            ELSE <<>>)

\* _operator_skeleton_delegation_flow(ctx, inputs)
_operator_skeleton_delegation_flow(params) ==
    <<"operator_skeleton_delegation_header", "delegated_execution_choices">>

\* a preview that shows the code of the empty bag
ViewCodeFlowOfEmptyBag(params) ==
    LET default == _create_operator_skeleton_code(<<>>)
    IN  [raised |-> default.raised,
         props |-> <<"operator_skeleton_view_code_header",
                     "operator_skeleton_view_code">>,
         code |-> default.text]

\* _operator_skeleton_view_code_flow(ctx, inputs): the code shown is the
\* default of operator_skeleton_view_code
_operator_skeleton_view_code_flow(params) ==
    LET default == _create_operator_skeleton_code(params)
    IN  [raised |-> default.raised,
         props |-> <<"operator_skeleton_view_code_header",
                     "operator_skeleton_view_code">>,
         code |-> default.text]

\* _create_skeleton(ctx, inputs)
_create_skeleton(params) ==
    <<"create_plugin_header", "directory", "plugin_subdirectory",
      "plugin_name", "plugin_description">>

\* BuildOperatorSkeleton.resolve_input(ctx)
SkeletonInputs(params) ==
    LET main_tab == Get(params, "operator_skeleton_tab",
                        operator_skeleton_tabs[1])
        flow ==
            IF InTab("Config", main_tab)
            THEN Flow(_operator_skeleton_config_flow(params)
                      \o _operator_skeleton_placement_flow(params))
            ELSE IF InTab("Input", main_tab)
            THEN Flow(_operator_skeleton_io_flow(params))
            ELSE IF InTab("Execution", main_tab)
            THEN Flow(_operator_skeleton_execution_flow(params)
                      \o _operator_skeleton_delegation_flow(params))
            ELSE IF InTab("Code", main_tab)
            THEN _operator_skeleton_view_code_flow(params)
            ELSE Flow(_create_skeleton(params))
    IN  [flow EXCEPT !.props = _operator_skeleton_tabs_input \o @]

\* resolve_input renders the form of the selected tab; it writes nothing
SkeletonResolveInput ==
    /\ sstatus \in {"idle", "form"}
    /\ sform = NoneVal
    /\ sform' = Some(SkeletonInputs(sparams))
    /\ sstatus' = "form"
    /\ UNCHANGED <<sparams, environ, files, sfailed, notSkeleton>>

\* the values a user of the wizard, or a program that builds the bag
\* itself, gives to the parameters.  A directory is the absolute_path of
\* the chosen directory, or "{}" for a value without absolute_path.
ParamValues ==
    [operator_skeleton_tab |->
        {operator_skeleton_tabs[j] : j \in 1..Len(operator_skeleton_tabs)},
     operator_name |-> {"count_samples"},
     operator_input_has_input |-> {"True"},
     operator_output_has_output |-> {"True"},
     operator_execution_has_trigger |-> {"True"},
     operator_execution_trigger |-> {"Set View", "Open A Panel", "Shutdown"},
     delegated_execution_choices |-> {"True", "User Choice"},
     operator_placement_has_placement |-> {"True"},
     directory |-> {"/chosen", "{}"},
     plugin_subdirectory |-> {"custom"}]

\* a parameter is set: the host renders the form anew
SkeletonEdit(key, value) ==
    /\ sstatus \in {"idle", "form"}
    /\ key \in DOMAIN sparams \/ Cardinality(DOMAIN sparams) < MaxParams
    /\ Get(sparams, key, None) # value
    /\ sparams' = [k \in DOMAIN sparams \cup {key} |->
                      IF k = key THEN value ELSE sparams[k]]
    /\ sform' = NoneVal
    /\ sstatus' = "idle"
    /\ UNCHANGED <<environ, files, sfailed, notSkeleton>>

\* _get_fo_plugins_dir(): os.environ["FIFTYONE_PLUGINS_DIR"]
_get_fo_plugins_dir ==
    IF "FIFTYONE_PLUGINS_DIR" \in DOMAIN environ
    THEN [raised |-> FALSE, value |-> environ["FIFTYONE_PLUGINS_DIR"]]
    ELSE [raised |-> TRUE, value |-> None]

\* ctx.params.get("directory", {}).get("absolute_path", default)
AbsolutePath(params, default) ==
    LET directory == Get(params, "directory", "{}")
    IN  IF directory = "{}" THEN default ELSE directory

\* os.path.join(full_path, name), full_path being
\* os.path.join(plugin_directory, subdir)
PathOf(plugin_directory, subdir, name) ==
    [dir |-> plugin_directory, subdir |-> subdir, name |-> name]

\* open(path, "w") followed by the write of text
WriteFile(fs, path, text) ==
    [p \in DOMAIN fs \cup {path} |-> IF p = path THEN text ELSE fs[p]]

\* which step of execute fails with an OSError, if any
SkeletonOutcomes == {"none", "makedirs", "init", "yml", "yml_write"}

\* a handler that removes __init__.py when fiftyone.yml cannot be written
WriteYmlWithCleanup(written, yml_path, text, out) ==
    IF out \in {"yml", "yml_write"}
    THEN [status |-> "OSError", failed |-> "yml",
          files |-> [p \in DOMAIN written
                            \ {[yml_path EXCEPT !.name = "__init__.py"]} |->
                        written[p]]]
    ELSE [status |-> "done", failed |-> None,
          files |-> WriteFile(written, yml_path, text)]

\* lines 1836-1839: fiftyone.yml is opened and its text written.  An
\* OSError of open leaves no file, one of write leaves the opened file
\* empty; nothing catches either.
WriteYml(written, yml_path, text, out) ==
    IF out = "yml"
    THEN [status |-> "OSError", failed |-> "yml", files |-> written]
    ELSE IF out = "yml_write"
    THEN [status |-> "OSError", failed |-> "yml",
          files |-> WriteFile(written, yml_path, <<>>)]
    ELSE [status |-> "done", failed |-> None,
          files |-> WriteFile(written, yml_path, text)]

\* BuildOperatorSkeleton.execute(ctx): the status, the step that raised
\* and the files it leaves
SkeletonExecuteResult(params, fs, out) ==
    LET default_plugin_directory == _get_fo_plugins_dir
        plugin_directory ==
            AbsolutePath(params, default_plugin_directory.value)
        subdir == Get(params, "plugin_subdirectory", "my_operator")
        init_path == PathOf(plugin_directory, subdir, "__init__.py")
        yml_path == PathOf(plugin_directory, subdir, "fiftyone.yml")
        code == _create_operator_skeleton_code(params)
        opened == WriteFile(fs, init_path, <<>>)
        written == WriteFile(fs, init_path, code.text)
    IN  IF default_plugin_directory.raised
        THEN [status |-> "KeyError", failed |-> "environ", files |-> fs]
        ELSE IF out \in {"makedirs", "init"}
        THEN [status |-> "OSError", failed |-> out, files |-> fs]
        ELSE IF code.raised
        THEN [status |-> "ValueError", failed |-> "code", files |-> opened]
        ELSE WriteYml(written, yml_path, _create_fiftyone_yml_code(params),
                      out)

SkeletonExecute ==
    /\ sstatus \in {"idle", "form"}
    /\ \E out \in SkeletonOutcomes :
         LET r == SkeletonExecuteResult(sparams, files, out)
         IN  /\ sstatus' = r.status
             /\ sfailed' = r.failed
             /\ files' = r.files
    /\ UNCHANGED <<sparams, environ, sform, notSkeleton>>

\* the files of an earlier run of the wizard
OldText == <<L(0, "old", "")>>

OldFiles ==
    [p \in {PathOf("/chosen", "my_operator", "__init__.py"),
            PathOf("/chosen", "my_operator", "fiftyone.yml"),
            PathOf("/chosen", "my_operator", "README.md"),
            PathOf("/plugins", "custom", "__init__.py")} |-> OldText]

SkeletonIdle ==
    /\ sparams = <<>>
    /\ environ = <<>>
    /\ files = <<>>
    /\ sform = NoneVal
    /\ sstatus = "idle"
    /\ sfailed = None

SkeletonInit ==
    /\ sparams = <<>>
    /\ environ \in {<<>>, [FIFTYONE_PLUGINS_DIR |-> "/plugins"]}
    /\ files \in {<<>>, OldFiles}
    /\ sform = NoneVal
    /\ sstatus = "idle"
    /\ sfailed = None

SkeletonNext ==
    \/ SkeletonResolveInput
    \/ \E key \in DOMAIN ParamValues :
         \E value \in ParamValues[key] : SkeletonEdit(key, value)
    \/ SkeletonExecute

\* ========================================================================
\* build_component
\* ========================================================================

\* The form of build_component as the names of its properties; the
\* property that carries a generated code has the chosen view in its name.
\* The check boxes, bounds and labels of the bag stay at their defaults.

\* view_type_to_options with the four dictionaries it names, keys in order
view_type_to_options ==
    [radio_group |-> <<"Dropdown", "Radio", "Tabs", "Autocomplete">>,
     boolean |-> <<"Checkbox", "Switch">>,
     float |-> <<"Slider", "Field">>,
     message |-> <<"Message", "Success", "Warning", "Error", "Header">>]

\* the parameter of the second selector of each view type
OptionParam ==
    [radio_group |-> "radio_view_type", boolean |-> "boolean_view_type",
     float |-> "float_view_type", message |-> "message_view_type"]

\* _create_view_type_input(inputs)
_create_view_type_input == <<"view_type_header", "view_type">>

\* _create_options_input(inputs, options_dict, view_type)
_create_options_input(view_type) ==
    CASE view_type = "radio_group" -> <<"radio_view_message", "radio_view_type">>
      [] view_type = "boolean" -> <<"boolean_view_message", "boolean_view_type">>
      [] view_type = "float" -> <<"float_view_message", "float_view_type">>
      [] view_type = "message" -> <<"message_view_message", "message_view_type">>

\* _create_view_code(ctx, inputs, view_type): each branch reads its view
\* with the first key as default and looks it up in its dictionary (the
\* message branch raises ValueError at the end of its elif chain)
_create_view_code(params, view_type) ==
    LET options == view_type_to_options[view_type]
        chosen == Get(params, OptionParam[view_type], options[1])
        known == \E j \in 1..Len(options) : options[j] = chosen
    IN  IF ~known
        THEN [raised |-> TRUE,
              props |-> IF view_type = "message"
                        THEN <<"message_label", "message_description">>
                        ELSE <<>>,
              chosen |-> chosen]
        ELSE [raised |-> FALSE,
              props |->
                CASE view_type = "radio_group" ->
                       <<"radio_props", "radio_group_code",
                         "radio_groups_preview", "radio_groups_preview_None">>
                  [] view_type = "boolean" ->
                       <<"boolean_code", "boolean_preview_header",
                         "boolean_preview">>
                  [] view_type = "float" ->
                       <<"float_props", "float_code", "float_preview_header",
                         "float_preview">>
                  [] view_type = "message" ->
                       <<"message_label", "message_description",
                         "message_code", "message_preview_header",
                         "message_preview">>,
              chosen |-> chosen]

\* BuildAComponent.resolve_input
ComponentInputs(params) ==
    LET view_type == Get(params, "view_type", None)
    IN  IF view_type = None
        THEN [raised |-> FALSE, props |-> _create_view_type_input,
              chosen |-> None]
        ELSE IF view_type \notin DOMAIN view_type_to_options
        THEN [raised |-> TRUE, props |-> _create_view_type_input,
              chosen |-> None]
        ELSE LET code == _create_view_code(params, view_type)
             IN  [raised |-> code.raised,
                  props |-> _create_view_type_input
                                \o _create_options_input(view_type)
                                \o code.props,
                  chosen |-> code.chosen]

ComponentResolveInput ==
    /\ cstatus \in {"idle", "form"}
    /\ cform = NoneVal
    /\ cform' = Some(ComponentInputs(cparams))
    /\ cstatus' = "form"
    /\ UNCHANGED <<cparams, notComponent>>

\* the values the selectors offer, and one that no dictionary holds
ComponentValues ==
    [view_type |-> DOMAIN view_type_to_options \cup {"table"},
     radio_view_type |-> {"Dropdown", "Tabs", "Table"},
     boolean_view_type |-> {"Checkbox", "Switch"},
     float_view_type |-> {"Slider", "Field"},
     message_view_type |-> {"Message", "Header", "Table"}]

\* a selector is set: the host renders the form anew
ComponentEdit(key, value) ==
    /\ cstatus \in {"idle", "form"}
    /\ Get(cparams, key, None) # value
    /\ cparams' = [k \in DOMAIN cparams \cup {key} |->
                      IF k = key THEN value ELSE cparams[k]]
    /\ cform' = NoneVal
    /\ cstatus' = "idle"
    /\ UNCHANGED notComponent

\* BuildAComponent.execute: pass
ComponentExecute ==
    /\ cstatus \in {"idle", "form"}
    /\ cstatus' = "done"
    /\ UNCHANGED <<cparams, cform, notComponent>>

ComponentIdle ==
    /\ cparams = <<>>
    /\ cform = NoneVal
    /\ cstatus = "idle"

ComponentNext ==
    \/ ComponentResolveInput
    \/ \E key \in DOMAIN ComponentValues :
         \E value \in ComponentValues[key] : ComponentEdit(key, value)
    \/ ComponentExecute

\* ========================================================================
\* Specifications
\* ========================================================================

\* the prompts of the other operators are closed
Closed(op) ==
    /\ operator = op
    /\ op = "install_plugin" \/ InstallIdle
    /\ op = "build_operator_skeleton" \/ SkeletonIdle
    /\ op = "build_component" \/ ComponentIdle

Init ==
    ManageInit /\ LoopIdle /\ ReqIdle /\ HydrateIdle /\ Closed("manage_plugins")

Next == ManageNext

Spec == Init /\ [][Next]_vars

InitReq ==
    ReqInit /\ ManageIdle /\ LoopIdle /\ HydrateIdle /\ Closed("manage_plugins")

SpecReq == InitReq /\ [][ReqNext]_vars

\* install_plugin against a registry that holds any of the plugins
InitInstall ==
    /\ installed \in SUBSET RemoteNames
    /\ enabled = installed
    /\ mparams = [tab |-> None, enablement |-> <<>>]
    /\ mform = NoneVal
    /\ mcalls = <<>>
    /\ mstatus = "idle"
    /\ LoopIdle
    /\ ReqIdle
    /\ InstallIdle
    /\ HydrateIdle
    /\ Closed("install_plugin")

SpecInstall == InitInstall /\ [][InstallNext]_vars

InitHydrate ==
    HydrateInit /\ ManageIdle /\ LoopIdle /\ ReqIdle /\ InstallIdle
        /\ Closed("install_plugin")

SpecHydrate == InitHydrate /\ [][HydrateNext]_vars

InitSkeleton ==
    SkeletonInit /\ ManageIdle /\ LoopIdle /\ ReqIdle /\ HydrateIdle
        /\ Closed("build_operator_skeleton")

SpecSkeleton == InitSkeleton /\ [][SkeletonNext]_vars

InitComponent ==
    /\ ComponentIdle
    /\ ManageIdle /\ LoopIdle /\ ReqIdle /\ InstallIdle /\ HydrateIdle
    /\ SkeletonIdle
    /\ operator = "build_component"

\* The four operator classes of the file (register(p) registers three of
\* them, BuildOperatorSkeleton is defined only): the prompt of one of them
\* is open.
InitOperators == Init \/ InitInstall \/ InitSkeleton \/ InitComponent

NextOperators ==
    \/ operator = "manage_plugins" /\ ManageNext
    \/ operator = "install_plugin" /\ InstallNext
    \/ operator = "build_operator_skeleton" /\ SkeletonNext
    \/ operator = "build_component" /\ ComponentNext

SpecOperators == InitOperators /\ [][NextOperators]_vars

InitLoop == LoopInit /\ ReqIdle /\ HydrateIdle /\ Closed("manage_plugins")

\* the thread that runs execute is never held up for ever
SpecLoop == InitLoop /\ [][LoopNext]_vars /\ WF_vars(LoopIterate)

\* ------------------------------------------------------------------------
\* C1: after manage_plugins.execute of a submitted enablement form has
\* returned, every submitted entry (name, enabled) whose plugin the registry
\* holds has name enabled in the registry if and only if enabled is true.
\* ------------------------------------------------------------------------
SubmittedEntries == DOMAIN mparams.enablement

C1_EnablementMatches ==
    (mstatus = "done" /\ mparams.tab = "ENABLEMENT") =>
        \A i \in SubmittedEntries :
            mparams.enablement[i].name \in installed =>
                ((mparams.enablement[i].name \in enabled)
                    <=> mparams.enablement[i].enabled)

\* a submitted form in which a switch was flipped both ways has been applied
C1_Witness ==
    /\ mstatus = "done"
    /\ mparams.tab = "ENABLEMENT"
    /\ \E c, d \in 1..Len(mcalls) : mcalls[c][2] /\ ~mcalls[d][2]

\* ------------------------------------------------------------------------
\* C2: _check_package_requirement reports a requirement satisfied exactly
\* when the string names a package that is installed and carries no version
\* clause or only clauses the installed version meets; a package that is not
\* installed is reported with no version and unsatisfied; ">=1.0,<2.0"
\* against an installed 0.9 is unsatisfied.  _check_fiftyone_requirement
\* applies the same rule to the host version.
\* ------------------------------------------------------------------------

\* every name and clause list with the string that spells them
Spellings ==
    {[n |-> n, cs |-> cs, ts |-> <<NameTok(n)>> \o ClauseToks(cs)] :
        n \in ReqNames, cs \in AllClauseLists}

\* req_str is the string of name n with the clauses cs
Reads(n, cs) == req_str = <<NameTok(n)>> \o ClauseToks(cs)

MeetsAll(cs, v) == \A j \in 1..Len(cs) : ClauseContains(cs[j], v)

Range1to2 == <<[op |-> ">=", n |-> 10], [op |-> "<", n |-> 20]>>

C2_RequirementSatisfied ==
    rresult # NoneVal =>
        LET r == rresult[1].out
        IN  /\ rresult[1].fn = "package" =>
                /\ r.satisfied <=>
                      \E w \in Spellings :
                          /\ w.ts = req_str
                          /\ w.n \in DOMAIN pkg_versions
                          /\ MeetsAll(w.cs, pkg_versions[w.n])
                /\ \A w \in Spellings :
                      w.ts = req_str =>
                          r.version = IF w.n \in DOMAIN pkg_versions
                                      THEN Some(pkg_versions[w.n]) ELSE NoneVal
                /\ (Reads("numpy", Range1to2) /\ r.version = Some(9))
                      => ~r.satisfied
            /\ rresult[1].fn = "fiftyone" =>
                /\ r.version = Some(fo_version)
                /\ r.satisfied <=>
                      \E w \in Spellings :
                          w.ts = req_str /\ MeetsAll(w.cs, fo_version)

\* "numpy>=1.0,<2.0" was checked with numpy 0.9 installed and found
\* unsatisfied
C2_Witness ==
    /\ rresult # NoneVal
    /\ rresult[1].fn = "package"
    /\ Reads("numpy", Range1to2)
    /\ rresult[1].out.version = Some(9)
    /\ ~rresult[1].out.satisfied

\* ------------------------------------------------------------------------
\* C3: for a requirement string that cannot be parsed, both checks return
\* satisfied = false and raise nothing; the requirements form is produced
\* and counts the rows of that string as unsatisfied.
\* ------------------------------------------------------------------------
Unparsable(ts) == ts \notin WellFormed

C3_UnparsableUnsatisfied ==
    /\ (rresult # NoneVal /\ Unparsable(req_str)) =>
          /\ ~rresult[1].out.raised
          /\ ~rresult[1].out.satisfied
          /\ rresult[1].out.req_str = req_str
    /\ rform # NoneVal =>
          LET f == rform[1]
              bad == {j \in 1..Len(f.rows) : Unparsable(f.rows[j].req_str)}
          IN  /\ ~f.raised
              /\ \A j \in bad : ~f.rows[j].satisfied
              /\ f.num_satisfied <= Len(f.rows) - Cardinality(bad)
              /\ bad # {} => f.status = "only"

\* a plugin whose fiftyone requirement and package requirement are both a
\* string that cannot be parsed got its form, with two unsatisfied rows
C3_Witness ==
    /\ rform # NoneVal
    /\ Unparsable(req_str)
    /\ Len(rform[1].rows) = 2
    /\ rform[1].num_satisfied = 0
    /\ rform[1].status = "only"

\* ------------------------------------------------------------------------
\* C4: when find_plugins (GitHub tab) or get_zoo_plugins (zoo tabs) raises
\* inside install_plugin.resolve_input, nothing propagates: the form ends
\* with an 'error' property marked invalid, and holds no plugin selector and
\* no update notice.
\* ------------------------------------------------------------------------
Selectors == {"plugin_names", "voxel51_plugin", "community_plugin"}
Notices == {"update_str", "update_notice"}

C4_DiscoveryFailureInline ==
    (iform # NoneVal /\ iform[1].failure \in {"find", "zoo"}) =>
        LET f == iform[1]
        IN  /\ ~f.raised
            /\ f.props[Len(f.props)] = "error"
            /\ "error" \in f.invalid
            /\ SeqRange(f.props) \cap (Selectors \cup Notices) = {}
            /\ f.updates = <<>>

\* find_plugins raised for an entered repository, and the form was returned
\* with the error view
C4_Witness ==
    /\ iform # NoneVal
    /\ iform[1].failure = "find"
    /\ iparams.gh_repo # NoneVal
    /\ "error" \in SeqRange(iform[1].props)

\* ------------------------------------------------------------------------
\* C5: a failure of get_plugin_info or of the installed-plugin listing
\* during the update check of install_plugin.resolve_input is caught like
\* the discovery failures: it shows as an inline error and does not
\* propagate out of resolve_input.
\* ------------------------------------------------------------------------
C5_UpdateCheckFailureInline ==
    (iform # NoneVal /\ iform[1].failure \in {"list", "info"}) =>
        /\ ~iform[1].raised
        /\ "error" \in SeqRange(iform[1].props)

\* ------------------------------------------------------------------------
\* C6: build_operator_skeleton.execute writes exactly two files, __init__.py
\* and fiftyone.yml, into <directory.absolute_path>/<plugin_subdirectory>,
\* over existing files of those names; when the bag carries a chosen
\* directory the files go there and execute succeeds whether or not
\* FIFTYONE_PLUGINS_DIR is configured.
\* ------------------------------------------------------------------------
SkeletonExecuted == sstatus \notin {"idle", "form"}

DirectoryChosen == Get(sparams, "directory", "{}") # "{}"

ChosenPath(name) ==
    PathOf(sparams["directory"],
           Get(sparams, "plugin_subdirectory", "my_operator"), name)

C6_ChosenDirectoryNeedsNoDefault ==
    (SkeletonExecuted /\ DirectoryChosen
        /\ sstatus \notin {"OSError", "ValueError"}) =>
        /\ sstatus = "done"
        /\ ChosenPath("__init__.py") \in DOMAIN files
        /\ ChosenPath("fiftyone.yml") \in DOMAIN files
        /\ files[ChosenPath("__init__.py")]
              = _create_operator_skeleton_code(sparams).text
        /\ files[ChosenPath("fiftyone.yml")]
              = _create_fiftyone_yml_code(sparams)
        /\ \A p \in DOMAIN files :
              p \notin {ChosenPath("__init__.py"), ChosenPath("fiftyone.yml")}
                  => p \in DOMAIN OldFiles /\ files[p] = OldText

\* ------------------------------------------------------------------------
\* C7: for every parameter bag, the code shown on the Preview Code tab is,
\* character for character, what execute writes to __init__.py for that
\* bag, in whatever order the parameters were set.
\* ------------------------------------------------------------------------
PreviewShown ==
    /\ sform # NoneVal
    /\ InTab("Code", Get(sparams, "operator_skeleton_tab",
                         operator_skeleton_tabs[1]))
    /\ ~sform[1].raised

WrittenInit ==
    PathOf(AbsolutePath(sparams, _get_fo_plugins_dir.value),
           Get(sparams, "plugin_subdirectory", "my_operator"), "__init__.py")

InFlight == Cardinality(running) + (IF hpc = "direct" THEN 1 ELSE 0)

Lacking == {n \in DOMAIN orig_map : orig_map[n].version = NoneVal}

C8_PoolBounded ==
    /\ processes <= 4
    /\ InFlight <= 4
    /\ processes # 0 =>
          /\ Cardinality(Lacking) >= 1
          /\ processes = IF Cardinality(Lacking) <= 4
                         THEN Cardinality(Lacking) ELSE 4

\* more than four plugins lack a version and four fetches are in flight
\* while a task still waits
C8_Witness ==
    /\ Cardinality(Lacking) > 4
    /\ Cardinality(running) = 4
    /\ next_task <= Len(htasks)

\* ------------------------------------------------------------------------
\* C9: when _hydrate_plugin_info returns normally, whatever the interleaving
\* and completion order of the workers, every entry that lacked a version
\* holds the info fetched from its own url and every other entry is
\* unchanged; the mapping depends on the input alone.
\* ------------------------------------------------------------------------
C9_HydratedFromOwnUrl ==
    hpc = "done" =>
        /\ DOMAIN plugins_map = DOMAIN orig_map
        /\ \A n \in DOMAIN orig_map :
              plugins_map[n] = IF n \in Lacking
                               THEN get_plugin_info(orig_map[n].url)
                               ELSE orig_map[n]

\* the call returned after fetching for three plugins while a fourth entry
\* kept its version
C9_Witness ==
    /\ hpc = "done"
    /\ Cardinality(Lacking) = 3
    /\ Cardinality(DOMAIN orig_map) = 4

\* ------------------------------------------------------------------------
\* C10: no fetch is repeated: in one call of _hydrate_plugin_info,
\* get_plugin_info is called exactly once for each plugin lacking a version,
\* also when exactly one plugin lacks it, and never for a plugin that has
\* one.
\* ------------------------------------------------------------------------
C10_FetchedExactlyOnce ==
    /\ \A n \in TaskNames : fetches[n] <= 1
    /\ hpc = "done" =>
          \A n \in TaskNames :
              fetches[n] = IF n \in Lacking THEN 1 ELSE 0

\* ------------------------------------------------------------------------
\* C13: build_operator_skeleton.execute has no recovery from a partial
\* failure: when creating or writing fiftyone.yml fails after __init__.py
\* was written, the exception leaves execute, __init__.py stays on disk
\* with its new content, and the write of fiftyone.yml is not tried again.
\* ------------------------------------------------------------------------
WrittenYml == [WrittenInit EXCEPT !.name = "fiftyone.yml"]

C13_NoRecoveryAfterYmlFailure ==
    sfailed = "yml" =>
        /\ sstatus = "OSError"
        /\ WrittenInit \in DOMAIN files
        /\ files[WrittenInit] = _create_operator_skeleton_code(sparams).text
        /\ WrittenYml \in DOMAIN files => files[WrittenYml] \in {OldText, <<>>}

\* fiftyone.yml could not be written, and the __init__.py of an earlier
\* run has been overwritten
C13_Witness ==
    /\ sfailed = "yml"
    /\ WrittenInit \in DOMAIN OldFiles
    /\ files[WrittenInit] # OldText

\* ------------------------------------------------------------------------
\* Notions shared by the claims about the loop of _plugin_enablement
\* ------------------------------------------------------------------------
\* the indices i with enablement1..enablement<i> all present
LoopPrefix ==
    {i \in 1..MaxEntries : \A k \in 1..i : k \in DOMAIN mparams.enablement}

\* the entries among the first k whose flag differs from the state the
\* plugin had when execute began
Changes(k) ==
    {i \in (1..k) \cap DOMAIN mparams.enablement :
        mparams.enablement[i].enabled
            # (mparams.enablement[i].name \in enabled_plugins)}

\* the calls logged are those for the changes among the first k entries,
\* one each, in the order of the entries
CallsMatchEntries(k) ==
    /\ Len(mcalls) = Cardinality(Changes(k))
    /\ \A j \in 1..Len(mcalls) :
          \E i \in Changes(k) :
              /\ Cardinality({c \in Changes(k) : c <= i}) = j
              /\ mcalls[j][1] = mparams.enablement[i].name
              /\ mcalls[j][2] = mparams.enablement[i].enabled

\* the enabled plugins after the calls that returned, starting from before
Applied(before, calls) ==
    {p \in PluginNames :
        LET js == {j \in 1..Len(calls) :
                      calls[j][1] = p /\ calls[j][3] /\ p \in installed}
        IN  IF js = {} THEN p \in before
            ELSE calls[CHOOSE j \in js : \A l \in js : l <= j][2]}

FailedCalls == {j \in 1..Len(mcalls) : ~mcalls[j][3]}

\* ------------------------------------------------------------------------
\* C14: when enable_plugin or disable_plugin fails for the k-th entry, the
\* exception leaves manage_plugins.execute: the call is not made again,
\* the changes for the entries 1..k-1 stay applied, and no entry after the
\* k-th is processed.
\* ------------------------------------------------------------------------
C14_FailurePropagates ==
    FailedCalls # {} =>
        /\ mstatus = "raised"
        /\ FailedCalls = {Len(mcalls)}
        /\ loop_i \in LoopPrefix
        /\ CallsMatchEntries(loop_i)
        /\ loop_i \in Changes(loop_i)
        /\ enabled = Applied(enabled_plugins, mcalls)

\* the third entry failed after the first two had changed two plugins
C14_Witness ==
    /\ mstatus = "raised"
    /\ loop_i = 3
    /\ Len(mcalls) = 3
    /\ enabled # enabled_plugins
    /\ Cardinality((enabled \ enabled_plugins)
                    \cup (enabled_plugins \ enabled)) = 2

\* ------------------------------------------------------------------------
\* C15: manage_plugins.execute leaves alone what it was not asked to
\* change: every call it issues is for a submitted entry whose flag differs
\* from the state the plugin had when execute began, a step changes the
\* state of no plugin but the one of the call it issues, there is no call
\* on another tab than ENABLEMENT, and the set of installed plugins never
\* changes.
\* ------------------------------------------------------------------------
C15_OnlyRequestedChanges ==
    [][/\ installed' = installed
       /\ mparams' = mparams
       /\ mparams.tab # "ENABLEMENT" => (enabled' = enabled /\ mcalls' = <<>>)
       /\ \A j \in 1..Len(mcalls') :
             \E i \in DOMAIN mparams.enablement :
                 /\ mparams.enablement[i].name = mcalls'[j][1]
                 /\ mparams.enablement[i].enabled = mcalls'[j][2]
                 /\ mcalls'[j][2] # (mcalls'[j][1] \in enabled_plugins')
       /\ enabled' # enabled =>
             /\ mcalls' = Append(mcalls, mcalls'[Len(mcalls')])
             /\ (enabled' \ enabled) \cup (enabled \ enabled')
                    = {mcalls'[Len(mcalls')][1]}]_vars

\* a run ended with one call although two installed plugins were
\* submitted, and a plugin that no entry names is still enabled
C15_Witness ==
    /\ mstatus = "done"
    /\ mparams.tab = "ENABLEMENT"
    /\ Cardinality(LoopPrefix) >= 2
    /\ Len(mcalls) = 1
    /\ mcalls[1][3]
    /\ mcalls[1][1] \in installed
    /\ \E p \in enabled :
          \A i \in DOMAIN mparams.enablement : mparams.enablement[i].name # p

DistinctInstalled ==
    \A i \in LoopPrefix :
        /\ mparams.enablement[i].name \in installed
        /\ \A k \in LoopPrefix :
              mparams.enablement[k].name = mparams.enablement[i].name => k = i

C20_LoopStopsAtFirstGap ==
    /\ [](mparams.tab = "ENABLEMENT" /\ mruns > 0 =>
            /\ loop_i <= Cardinality(LoopPrefix) + 1
            /\ mstatus = "done" =>
                  /\ loop_i = Cardinality(LoopPrefix) + 1
                  /\ CallsMatchEntries(Cardinality(LoopPrefix))
                  /\ enabled = Applied(enabled_plugins, mcalls))
    /\ (mstatus = "running" ~> mstatus \in {"done", "raised"})

\* the loop ended after the first entry: enablement2 is absent, and
\* enablement3 would have switched an installed plugin
C20_Witness ==
    /\ mstatus = "done"
    /\ mparams.tab = "ENABLEMENT"
    /\ DOMAIN mparams.enablement = {1, 3}
    /\ loop_i = 2
    /\ Len(mcalls) = 1
    /\ mparams.enablement[3].name \in installed
    /\ mparams.enablement[3].name # mparams.enablement[1].name
    /\ mparams.enablement[3].enabled
           # (mparams.enablement[3].name \in enabled)

\* ------------------------------------------------------------------------
\* C12: on the GitHub tab, install_plugin.execute installs all plugins
\* found at the repository when no plugin name is selected (plugin_names
\* absent or empty), and requests exactly the selected plugins when the
\* selection is not empty.
\* ------------------------------------------------------------------------
C12_GithubInstallsSelection ==
    (istatus = "done" /\ iparams.tab = "GITHUB") =>
        IF iparams.plugin_names \in {NoneVal, Some(<<>>)}
        THEN SeqRange(RepoPluginNames(iparams.gh_repo[1].repo))
                 \subseteq installed
        ELSE /\ Len(icalls) = 1
             /\ icalls[1].gh_repo = iparams.gh_repo
             /\ icalls[1].plugin_names = iparams.plugin_names

\* ------------------------------------------------------------------------
\* C16: install_plugin.resolve_input shows the update notice exactly when
\* one of the plugin names to be installed is installed already; the
\* updates it lists are one triple (name, installed version, version to be
\* installed) for each such name, in ascending order of the names, and
\* none for a name that is not installed.
\* ------------------------------------------------------------------------
\* the names to be installed, as the form takes them from the bag: the
\* selection, or all plugins found when nothing is selected
NamesToInstall ==
    IF iparams.tab \in {None, "GITHUB"}
    THEN IF iparams.gh_repo = NoneVal THEN {}
         ELSE LET there == SeqRange(RepoPluginNames(iparams.gh_repo[1].repo))
              IN  IF there = {} THEN {}
                  ELSE IF iparams.plugin_names \in {NoneVal, Some(<<>>)}
                  THEN there
                  ELSE SeqRange(iparams.plugin_names[1])
    ELSE LET plugin_name == IF iparams.tab = "VOXEL51"
                            THEN iparams.voxel51_plugin
                            ELSE iparams.community_plugin
         IN  IF plugin_name = NoneVal THEN {} ELSE {plugin_name[1]}

C16_UpdateNoticeForInstalled ==
    (iform # NoneVal /\ iform[1].failure \notin {"find", "zoo"}) =>
        LET upd == SortedSeq(NamesToInstall \cap installed)
        IN  /\ "update_notice" \in SeqRange(iform[1].props) <=> upd # <<>>
            /\ iform[1].updates =
                  [j \in 1..Len(upd) |->
                      <<upd[j], InstalledVersion, RemoteVersion>>]

\* ------------------------------------------------------------------------
\* C17: _get_updates completes without error for every combination of
\* selected names, discovered plugins and installed plugins, also when a
\* selected name is installed and is not among the plugins discovered at
\* the current location.
\* ------------------------------------------------------------------------
\* failure "none" with raised: no collaborator failed, the exception is
\* the KeyError of plugins_map[name]
C17_GetUpdatesCompletes ==
    iform # NoneVal => ~(iform[1].raised /\ iform[1].failure = "none")

\* ------------------------------------------------------------------------
\* C18: the number N in "You are about to change the enablement of N
\* plugins" is the number of installed plugins whose submitted flag differs
\* from their current enabled state, and the status property is marked
\* invalid exactly when that number is zero.
\* ------------------------------------------------------------------------
\* the installed plugins for which the bag holds an entry, under their
\* name, with a flag that is not their current state
PluginsToChange ==
    {p \in installed :
        \E i \in DOMAIN mparams.enablement :
            /\ mparams.enablement[i].name = p
            /\ mparams.enablement[i].enabled # (p \in enabled)}

C18_NoticeCountsChangedPlugins ==
    (mstatus = "form" /\ mform # NoneVal /\ mform[1].tab = "ENABLEMENT") =>
        /\ mform[1].num_edited = Cardinality(PluginsToChange)
        /\ mform[1].invalid <=> Cardinality(PluginsToChange) = 0

\* ------------------------------------------------------------------------
\* C11: side effects occur only in execute.  No resolve_input of
\* install_plugin, manage_plugins, build_component or
\* build_operator_skeleton downloads, enables or disables a plugin, writes
\* a file or changes the parameter bag, and build_component.execute has no
\* side effect at all.
\* ------------------------------------------------------------------------
\* a step in which one of the four forms is built
FormBuilt ==
    \/ mform' # NoneVal /\ mform' # mform
    \/ iform' # NoneVal /\ iform' # iform
    \/ sform' # NoneVal /\ sform' # sform
    \/ cform' # NoneVal /\ cform' # cform

C11_SideEffectsOnlyInExecute ==
    [][/\ FormBuilt =>
            UNCHANGED <<installed, enabled, mcalls, icalls, files, environ,
                        mparams, iparams, sparams, cparams>>
       /\ (cstatus # "done" /\ cstatus' = "done") =>
            UNCHANGED <<manageVars, reqVars, installVars, hydrateVars,
                        skeletonVars, loopVars, cparams, cform,
                        operator>>]_vars

\* build_component.execute has run on the form of a message component
C11_Witness ==
    /\ operator = "build_component"
    /\ cstatus = "done"
    /\ cform # NoneVal
    /\ ~cform[1].raised
    /\ cform[1].chosen = "Header"

\* ------------------------------------------------------------------------
\* C21: when the installed plugins or their order change between the
\* rendering of the enablement form and execute, execute applies each
\* submitted flag to the plugin whose name the entry holds, and never to
\* another plugin that is now listed at the index of the entry.
\* ------------------------------------------------------------------------
\* the bag holds an entry with this name and this flag
Submitted(name, flag) ==
    \E i \in DOMAIN mparams.enablement :
        /\ mparams.enablement[i].name = name
        /\ mparams.enablement[i].enabled = flag

C21_FlagsAppliedByName ==
    [][(mstatus \in {"idle", "form"} /\ mstatus' \in {"done", "raised"}) =>
          /\ \A j \in 1..Len(mcalls') : Submitted(mcalls'[j][1], mcalls'[j][2])
          /\ \A p \in (enabled' \ enabled) \cup (enabled \ enabled') :
                Submitted(p, p \in enabled')]_vars

\* execute has switched a plugin that an entry names and that is listed
\* at another index now, the index of the entry being that of a plugin
\* which no entry names
C21_Witness ==
    /\ mstatus = "done"
    /\ mparams.tab = "ENABLEMENT"
    /\ \E i \in DOMAIN mparams.enablement :
          /\ i <= Len(list_plugins)
          /\ list_plugins[i] # mparams.enablement[i].name
          /\ ~Submitted(list_plugins[i], TRUE)
          /\ ~Submitted(list_plugins[i], FALSE)
          /\ mparams.enablement[i].name \in installed
          /\ \E j \in 1..Len(mcalls) :
                mcalls[j] = <<mparams.enablement[i].name,
                              mparams.enablement[i].enabled>>

\* ------------------------------------------------------------------------
\* C22: execute treats a missing tab as the tab that resolve_input shows
\* for the same bag: install_plugin.execute without tab installs from the
\* GitHub fields as if tab were GITHUB, and manage_plugins.execute without
\* tab applies the enablement entries as if tab were ENABLEMENT.
\* ------------------------------------------------------------------------
\* install_plugin.execute has run on a bag without tab that holds a
\* repository: the download call of the GITHUB tab was made
C22_InstallWithoutTab ==
    (istatus \in {"done", "raised"} /\ iparams.tab = None
        /\ iparams.gh_repo # NoneVal) =>
        icalls = <<[gh_repo |-> iparams.gh_repo,
                    plugin_names |-> iparams.plugin_names,
                    overwrite |-> TRUE]>>

\* manage_plugins.execute has returned on a bag without tab: the entries
\* that name an installed plugin are applied
C22_ManageWithoutTab ==
    (mstatus = "done" /\ mparams.tab = None) =>
        \A i \in DOMAIN mparams.enablement :
            mparams.enablement[i].name \in installed =>
                ((mparams.enablement[i].name \in enabled)
                    <=> mparams.enablement[i].enabled)

C22_MissingTabIsDefaultTab ==
    /\ C22_InstallWithoutTab
    /\ C22_ManageWithoutTab

\* ------------------------------------------------------------------------
\* C23: install_plugin.execute issues exactly one download_plugin call,
\* with overwrite enabled: on the GitHub tab with the entered repository,
\* on the Voxel51 and Community tabs with the url of the zoo plugin that
\* has the chosen name and with that one name as the plugin list; the
\* location is not empty when the chosen name is in the zoo listing.
\* ------------------------------------------------------------------------
ZooNames == SeqRange(ZooVoxel51Names) \cup SeqRange(ZooCommunityNames)

\* the field of the tab the bag names
ChosenPlugin ==
    IF iparams.tab = "VOXEL51" THEN iparams.voxel51_plugin
    ELSE iparams.community_plugin

C23_OneDownloadCall ==
    (istatus \in {"done", "raised"}
        /\ iparams.tab \in {"GITHUB", "VOXEL51", "COMMUNITY"}) =>
        /\ Len(icalls) <= 1
        /\ istatus = "done" => Len(icalls) = 1
        /\ Len(icalls) = 1 =>
              /\ icalls[1].overwrite
              /\ IF iparams.tab = "GITHUB"
                 THEN /\ iparams.gh_repo # NoneVal
                      /\ icalls[1].gh_repo = iparams.gh_repo
                 ELSE /\ ChosenPlugin # NoneVal
                      /\ icalls[1].plugin_names = Some(<<ChosenPlugin[1]>>)
                      /\ ChosenPlugin[1] \in ZooNames =>
                            icalls[1].gh_repo = Some(UrlOf(ChosenPlugin[1]))

\* a plugin of the community list, not the first of the zoo, was installed
\* from its own url
C23_Witness ==
    /\ istatus = "done"
    /\ iparams.tab = "COMMUNITY"
    /\ Len(icalls) = 1
    /\ icalls[1].gh_repo = Some(UrlOf(ChosenPlugin[1]))
    /\ ChosenPlugin[1] # ZooVoxel51Names[1]
    /\ ChosenPlugin[1] \in installed

====
